---- MODULE Spec2Model ----
(***************************************************************************)
(* Verification model of the SSR (Semantic Similarity Rating) engine:      *)
(*   - the scale-anchor resolver        (scale-anchors.ts,  src/unnamed/part_003) *)
(*   - the embedding similarity scorer  (embedding-service.ts, src/unnamed/part_002) *)
(*   - SSREngine.mapToLikert            (ssr-engine.ts,     src/unnamed/part_004) *)
(*                                                                         *)
(* JavaScript strings are TLA+ strings (sequences of characters); the      *)
(* string methods the code calls (toLowerCase, trim, includes, replace)    *)
(* are defined below on those sequences.  An optional value (a field that  *)
(* may be undefined, a result that may be null) is a sequence of length    *)
(* at most one: None is undefined/null, Some(v) is the value v.            *)
(***************************************************************************)
EXTENDS Integers, Sequences, FiniteSets, TLC

VARIABLES
    question,     \* the SurveyQuestion handed to resolveAnchors
    anchorSet,    \* the ScaleAnchorSet it returned (None before the call)
    scoreIn,      \* the arguments of one scoring call
    scoreOut,     \* how the scoring call settled (None before the call)
    engine,       \* the SSREngine's readonly embedding settings
    anchorCache,  \* VoyageEmbeddingService.anchorCache: key -> anchor vectors
    mapOut,       \* the last mapToLikert call and how it settled
    mapCalls,     \* the number of mapToLikert calls made so far
    simIn,        \* a similarity vector with the settings it is scored under
    simOut,       \* the result computed from it (None before)
    embeddedCases,\* the calibration script's embedded test cases
    lodoOut,      \* how runLODO ended (None before the call)
    bootRuns,     \* the runs of runBootstrap made so far, with how they ended
    sharedRng,    \* the generator the bootstrap repeats share
    repeatOut,    \* per bootstrap repeat, what it produced (None before)
    foldOut,      \* per held-out domain, what its fold produced (None before)
    mappings,     \* the mapToLikert calls in progress on one service instance
    providerCalls,\* the cache keys the provider was asked to embed anchors for
    now,          \* Date.now(), in milliseconds
    requestCount, \* SSREngine.requestCount
    lastResetTime,\* SSREngine.lastResetTime
    callers,      \* the callWithRetry calls of the personas in flight
    recentPasses, \* the times of the latest passes of checkRateLimit
    fetching,     \* the embed call in progress on the embedding service
    fetchLog,     \* the requests, responses and waits of its current batch
    embedOut,     \* how the embed call settled (None before)
    panel,        \* the simulatePanel call: its arguments and where it stands
    personaRuns,  \* per persona, where its simulation stands
    panelResults, \* simulatePanel's results array (None: an empty slot)
    completedCount,\* simulatePanel's completedCount
    progressLog,  \* the values of current passed to onProgress, in call order
    polls,        \* the number of shouldCancel calls
    panelOut,     \* how simulatePanel settled (None before)
    simulation,   \* the simulatePersona call: its questions and where it stands
    generationCalls,\* the ids of the questions handed to generateResponse, in call order
    personaOut,   \* how simulatePersona settled (None before)
    likertCall,   \* the mapToLikert call with both of its paths: its arguments and where it stands
    likertOut,    \* how that call settled (None before)
    generating,   \* the phase1Generate call: the pair and the attempt it stands at
    generatedTexts,\* phase1Generate's results array
    checkpoint,   \* the newest generated-texts file (None: there is none)
    generateOut   \* how phase1Generate settled (None before)

resolveVars == << question, anchorSet >>

scoreVars == << scoreIn, scoreOut >>

mapVars == << engine, anchorCache, mapOut, mapCalls >>

simVars == << simIn, simOut >>

calibVars == << embeddedCases, lodoOut, bootRuns >>

orderVars == << sharedRng, repeatOut, foldOut >>

cacheVars == << mappings, providerCalls >>

coreVars == << resolveVars, scoreVars, mapVars, simVars, calibVars, orderVars,
               cacheVars >>

rateVars == << now, requestCount, lastResetTime, callers, recentPasses >>

fetchVars == << fetching, fetchLog, embedOut >>

panelVars == << panel, personaRuns, panelResults, completedCount, progressLog,
               polls, panelOut >>

personaVars == << simulation, generationCalls, personaOut >>

likertVars == << likertCall, likertOut >>

generateVars == << generating, generatedTexts, checkpoint, generateOut >>

engineVars == << rateVars, fetchVars, panelVars, personaVars, likertVars, generateVars >>

exceptRate == << coreVars, fetchVars, panelVars, personaVars, likertVars, generateVars >>

exceptFetch == << coreVars, rateVars, panelVars, personaVars, likertVars, generateVars >>

exceptPanel == << coreVars, rateVars, fetchVars, personaVars, likertVars, generateVars >>

exceptPersona == << coreVars, rateVars, fetchVars, panelVars, likertVars, generateVars >>

exceptLikert == << coreVars, rateVars, fetchVars, panelVars, personaVars, generateVars >>

exceptGenerate == << coreVars, rateVars, fetchVars, panelVars, personaVars, likertVars >>

vars == << question, anchorSet, scoreIn, scoreOut,
           engine, anchorCache, mapOut, mapCalls, simIn, simOut,
           embeddedCases, lodoOut, bootRuns, sharedRng, repeatOut, foldOut,
           mappings, providerCalls,
           now, requestCount, lastResetTime, callers, recentPasses,
           fetching, fetchLog, embedOut,
           panel, personaRuns, panelResults, completedCount, progressLog, polls,
           panelOut,
           simulation, generationCalls, personaOut,
           likertCall, likertOut,
           generating, generatedTexts, checkpoint, generateOut >>

(***************************************************************************)
(* Optional values.                                                        *)
(***************************************************************************)
None == << >>

Some(v) == << v >>

IsSome(o) == o # None

Val(o) == o[1]

\* a ?? d : d only when a is undefined/null
Nullish(o, d) == IF o = None THEN d ELSE Val(o)

\* a || d for a number a : d when a is undefined or falsy (0)
OrElse(o, d) == IF o = None \/ Val(o) = 0 THEN d ELSE Val(o)

(***************************************************************************)
(* String methods.                                                         *)
(***************************************************************************)
\* the characters toLowerCase changes, each with its lower-case form
LOWER ==
    [ A |-> "a", B |-> "b", C |-> "c", D |-> "d", E |-> "e", F |-> "f",
      G |-> "g", H |-> "h", I |-> "i", J |-> "j", K |-> "k", L |-> "l",
      M |-> "m", N |-> "n", O |-> "o", P |-> "p", Q |-> "q", R |-> "r",
      S |-> "s", T |-> "t", U |-> "u", V |-> "v", W |-> "w", X |-> "x",
      Y |-> "y", Z |-> "z" ]

Char(s, i) == SubSeq(s, i, i)

LowerChar(c) == IF c \in DOMAIN LOWER THEN LOWER[c] ELSE c

RECURSIVE toLowerCase(_)
toLowerCase(s) ==
    IF Len(s) = 0 THEN s
    ELSE LowerChar(Char(s, 1)) \o toLowerCase(SubSeq(s, 2, Len(s)))

IsSpace(c) == c = " "

RECURSIVE trimStart(_)
trimStart(s) ==
    IF Len(s) > 0 /\ IsSpace(Char(s, 1))
    THEN trimStart(SubSeq(s, 2, Len(s)))
    ELSE s

RECURSIVE trimEnd(_)
trimEnd(s) ==
    IF Len(s) > 0 /\ IsSpace(Char(s, Len(s)))
    THEN trimEnd(SubSeq(s, 1, Len(s) - 1))
    ELSE s

trim(s) == trimEnd(trimStart(s))

includes(s, p) ==
    \E i \in 1..(Len(s) - Len(p) + 1) : SubSeq(s, i, i + Len(p) - 1) = p

startsWith(s, p) == Len(s) >= Len(p) /\ SubSeq(s, 1, Len(p)) = p

\* s.replace(/^(very |extremely )/, "")
replaceIntensifier(s) ==
    IF startsWith(s, "very ") THEN SubSeq(s, 6, Len(s))
    ELSE IF startsWith(s, "extremely ") THEN SubSeq(s, 11, Len(s))
    ELSE s

(***************************************************************************)
(* Math.round on a rational num/den (den > 0): floor(num/den + 1/2), so a  *)
(* tie goes up.  The quotients the code rounds are i/(N-1)*4; a tie there  *)
(* is a multiple of 1/8, which a double holds exactly, so the rational     *)
(* value rounds as the double does.                                        *)
(***************************************************************************)
Ratio(n, d) == [num |-> n, den |-> d]

Times(r, k) == [num |-> r.num * k, den |-> r.den]

LessThan(r, n, d) == r.num * d < n * r.den

MathRound(r) == (2 * r.num + r.den) \div (2 * r.den)

(***************************************************************************)
(* Predefined anchor templates (TEMPLATES).  A family record has the field *)
(* anchors7 / anchors11 only where the source defines it.                  *)
(***************************************************************************)
TEMPLATES ==
    [ agreement |->
        [ anchors5 |-> <<
              "Completely wrong. I strongly disagree, this doesn't match reality at all and I reject this statement.",
              "I don't think so. I disagree with this, there are problems and it doesn't seem right to me.",
              "Not sure either way. I could see arguments for and against, I don't have a strong opinion on this.",
              "I think so, mostly. I agree that this is about right, with maybe a few minor exceptions.",
              "Absolutely right. I completely agree, this is exactly correct and perfectly describes the situation."
            >>,
          anchors7 |-> <<
              "I strongly disagree. This is completely contrary to my views.",
              "I disagree. I don't think this is accurate.",
              "I slightly disagree. I have some reservations about this.",
              "I neither agree nor disagree. I'm neutral on this.",
              "I slightly agree. I'm somewhat inclined to agree.",
              "I agree. I think this is mostly correct.",
              "I strongly agree. This is absolutely right."
            >> ],
      satisfaction |->
        [ anchors5 |-> <<
              "Terrible. I was frustrated and angry the entire time, nothing worked right and I regret using this.",
              "Not great. I ran into problems and it was harder than it should have been, below what I expected.",
              "It was okay. Nothing special, not bad but not good either. Pretty average and forgettable.",
              "Pretty good. Things went smoothly for the most part, just a couple of small things that could be better.",
              "Excellent. Everything was smooth, fast, and easy. I'm really impressed and delighted with the result."
            >> ],
      likelihood |->
        [ anchors5 |-> <<
              "No, I definitely won't. I had a bad experience and I have no intention of doing this again. I'll go elsewhere.",
              "Probably not. It wasn't great and I have better options available. I'd need a strong reason to come back.",
              "Maybe, maybe not. It depends on the circumstances and what's available. I don't feel strongly either way.",
              "Yeah, I probably will. It was decent enough and fairly convenient. I'd come back if the opportunity arises.",
              "Absolutely, I definitely will. I had a great experience and I'm already looking forward to doing this again soon."
            >> ],
      ease |->
        [ anchors5 |-> <<
              "Incredibly frustrating. I kept getting stuck and couldn't figure out what to do next. It felt like fighting the system every step of the way.",
              "Kind of a hassle. I ran into a couple of confusing parts and had to stop and think more than I should have. Not the smoothest experience.",
              "It was fine, I guess. Not particularly hard but not effortless either. I got through it without too much trouble.",
              "Pretty straightforward. I figured things out quickly and only paused once or twice. Most of it just made sense right away.",
              "Couldn't have been simpler. Everything was obvious and intuitive, I breezed through the whole thing without a second thought."
            >> ],
      importance |->
        [ anchors5 |-> <<
              "Couldn't care less about this. It has zero impact on my life and I wouldn't even notice if it disappeared tomorrow.",
              "It's on my radar but barely. There are way bigger things I worry about, this is pretty low on my priority list.",
              "It matters somewhat. I'd pay attention to it but it's not something that keeps me up at night or changes my decisions.",
              "This is a big deal to me. I think about it regularly and it genuinely affects my choices and how I go about things.",
              "This is absolutely essential. I can't imagine doing without it, it's one of the most important things in my life right now."
            >> ],
      familiarity |->
        [ anchors5 |-> <<
              "Never heard of it. This is completely new to me, I have no idea what it is or what it does. Drawing a total blank.",
              "I've seen the name around but that's about it. I couldn't really tell you much about it beyond the most surface-level stuff.",
              "I know the basics. I've come across it enough to have a general sense of what it's about, but I'm no expert by any means.",
              "I know it pretty well. I've used it or dealt with it enough times that I'm comfortable with it and could explain it to someone.",
              "I know this inside and out. I use it all the time, I could talk about it in detail, and people come to me with questions about it."
            >> ],
      appeal |->
        [ anchors5 |-> <<
              "Hard pass. Nothing about this interests me at all. I scrolled right past it and wouldn't give it a second look.",
              "Eh, it's okay I guess. There's maybe one small thing that caught my eye, but overall it's not really for me.",
              "It's interesting enough. I can see why people would like it, and I might check it out if the timing was right.",
              "Yeah, this is really appealing. I'm drawn to it and I'd actively look into it more. It's got my attention for sure.",
              "I absolutely love this. I'm excited just thinking about it, this is exactly my kind of thing and I want it now."
            >> ],
      value |->
        [ anchors5 |-> <<
              "Total rip-off. I feel cheated paying this much for what you actually get. Completely overpriced and not worth a fraction of the cost.",
              "Not great value. It feels a bit expensive for what it is. I'd expect more features or better quality at this price point.",
              "Fair enough for the price. You get what you pay for, nothing more and nothing less. It's reasonable but not a bargain.",
              "Good value for the money. I feel like I'm getting a solid deal here. The quality and features justify the price and then some.",
              "Incredible deal. I can't believe how much you get for this price. It's an absolute steal and I'd happily pay more for it."
            >> ],
      trust |->
        [ anchors5 |-> <<
              "I don't trust this one bit. Something feels off and I'd be very careful sharing any personal information or relying on it for anything important.",
              "I'm a little skeptical. There are some red flags that make me uneasy. I'd proceed with caution and double-check things independently.",
              "I'm on the fence. I don't have a strong reason to trust or distrust it. I'd give it a chance but I'm keeping my guard up.",
              "I trust it for the most part. It seems reliable and legitimate. I'd feel comfortable using it without worrying too much.",
              "I trust this completely. It has a solid track record and I'd feel totally comfortable recommending it and relying on it for important things."
            >> ],
      quality |->
        [ anchors5 |-> <<
              "Terrible quality. It feels cheap, flimsy, and poorly made. I'm honestly surprised this passed any kind of quality check. Not acceptable at all.",
              "Below average quality. There are some noticeable issues like rough edges or inconsistent finish. It works but you can tell corners were cut.",
              "Decent quality overall. Nothing wrong with it but nothing that wows me either. It does what it's supposed to do, standard stuff.",
              "Really good quality. Well-made, solid feel, and clearly some thought went into the details. I'm impressed with the craftsmanship.",
              "Outstanding quality. Premium feel in every way, this is clearly best-in-class. The attention to detail and materials are top-notch."
            >> ],
      frequency |->
        [ anchors5 |-> <<
              "Never, not once. This just isn't something that's part of my routine at all. I can't remember the last time I did this, if ever.",
              "Hardly ever. Maybe once in a blue moon if the stars align. It's rare enough that it barely registers as something I do.",
              "Every now and then. I do it occasionally when the situation calls for it, but it's not a regular habit. Maybe a few times a month.",
              "Pretty regularly. It's part of my routine at this point. I do it multiple times a week and it feels natural and habitual.",
              "All the time, practically every day. I can't imagine not doing this, it's completely woven into my daily life at this point."
            >> ],
      uniqueness |->
        [ anchors5 |-> <<
              "Nothing special about this at all. It's basically a copy of what's already out there. I've seen this exact same thing a dozen times before.",
              "Mostly the same as other options. There might be a small twist here or there but nothing that really sets it apart in a meaningful way.",
              "It has some distinctive qualities. A few things about it feel fresh or different, though the core concept isn't entirely new.",
              "This really stands out from the crowd. It has a clear identity and does things differently enough that I'd remember it and point it out to others.",
              "Truly one of a kind. I've never seen anything quite like this before. It's so original and different that it feels like it created its own category."
            >> ],
      relevance |->
        [ anchors5 |-> <<
              "This has nothing to do with me. It's completely off-base for my situation and I can't see any connection to what I actually need.",
              "Tangentially related at best. There's a loose connection but it doesn't really address what I'm looking for in any meaningful way.",
              "Somewhat relevant. Parts of it apply to my situation and I can see some usefulness, but it's not exactly what I had in mind.",
              "Very relevant to what I need. It closely aligns with my situation and addresses most of the things I'm actually looking for.",
              "Spot on, exactly what I was looking for. This fits my needs perfectly and I feel like it was made specifically for my situation."
            >> ],
      impression |->
        [ anchors5 |-> <<
              "Awful first impression. Everything about it rubs me the wrong way and I came away feeling really negative. Not a fan at all.",
              "Not a great impression. A few things turned me off and I have some real concerns. I'd need convincing to give it another chance.",
              "My impression is neutral. I don't feel strongly one way or the other. It didn't wow me but it didn't put me off either.",
              "Good impression overall. I came away feeling positive and optimistic about it. There's a lot to like and I'm interested to see more.",
              "Absolutely fantastic impression. I'm blown away by everything I've seen. This exceeded all my expectations and I'm genuinely enthusiastic."
            >> ],
      purchase_intent |->
        [ anchors5 |-> <<
              "No chance I'm buying this. It's not for me at all and I'd never spend my money on it. I'd walk right past it every time.",
              "Probably not going to buy it. I'm not very interested and there are better ways I could spend my money. It'd take a lot to convince me.",
              "I might buy it, I might not. I'm on the fence. If the price was right or someone recommended it, I could see myself picking it up.",
              "Yeah, I'd probably buy this. It looks good and fits what I'm looking for. I can see myself pulling the trigger on this pretty soon.",
              "I'm buying this for sure. Take my money right now. This is exactly what I've been looking for and I don't need any more convincing."
            >> ],
      nps |->
        [ anchors5 |-> <<>>,
          anchors11 |-> <<
              "I would never recommend this. Terrible experience. Score: 0 out of 10.",
              "I would strongly advise against this. Very poor experience. Score: 1 out of 10.",
              "I am very unlikely to recommend this. Poor experience. Score: 2 out of 10.",
              "I would probably not recommend this. Below average experience. Score: 3 out of 10.",
              "I would hesitate to recommend this. Mediocre experience. Score: 4 out of 10.",
              "I am neutral about recommending this. Average experience. Score: 5 out of 10.",
              "I might recommend this in some cases. Slightly above average. Score: 6 out of 10.",
              "I would likely recommend this. Good experience overall. Score: 7 out of 10.",
              "I would recommend this. Very good experience. Score: 8 out of 10.",
              "I would strongly recommend this. Excellent experience. Score: 9 out of 10.",
              "I would enthusiastically recommend this to everyone. Outstanding. Score: 10 out of 10."
            >> ] ]

(***************************************************************************)
(* LABEL_TO_SEMANTIC, in the order Object.entries enumerates it.           *)
(***************************************************************************)
LABEL_TO_SEMANTIC ==
    <<
      [pattern |-> "very dissatisfied", semantic |-> "satisfaction"],
      [pattern |-> "very satisfied", semantic |-> "satisfaction"],
      [pattern |-> "extremely dissatisfied", semantic |-> "satisfaction"],
      [pattern |-> "extremely satisfied", semantic |-> "satisfaction"],
      [pattern |-> "strongly disagree", semantic |-> "agreement"],
      [pattern |-> "strongly agree", semantic |-> "agreement"],
      [pattern |-> "very unlikely", semantic |-> "likelihood"],
      [pattern |-> "very likely", semantic |-> "likelihood"],
      [pattern |-> "extremely unlikely", semantic |-> "likelihood"],
      [pattern |-> "extremely likely", semantic |-> "likelihood"],
      [pattern |-> "not at all likely", semantic |-> "likelihood"],
      [pattern |-> "very difficult", semantic |-> "ease"],
      [pattern |-> "very easy", semantic |-> "ease"],
      [pattern |-> "not important", semantic |-> "importance"],
      [pattern |-> "not important at all", semantic |-> "importance"],
      [pattern |-> "very important", semantic |-> "importance"],
      [pattern |-> "extremely important", semantic |-> "importance"],
      [pattern |-> "not at all familiar", semantic |-> "familiarity"],
      [pattern |-> "extremely familiar", semantic |-> "familiarity"],
      [pattern |-> "not at all appealing", semantic |-> "appeal"],
      [pattern |-> "extremely appealing", semantic |-> "appeal"],
      [pattern |-> "not appealing", semantic |-> "appeal"],
      [pattern |-> "very appealing", semantic |-> "appeal"],
      [pattern |-> "very poor value", semantic |-> "value"],
      [pattern |-> "excellent value", semantic |-> "value"],
      [pattern |-> "not at all", semantic |-> "trust"],
      [pattern |-> "completely", semantic |-> "trust"],
      [pattern |-> "very poor", semantic |-> "quality"],
      [pattern |-> "excellent", semantic |-> "quality"],
      [pattern |-> "very negative", semantic |-> "impression"],
      [pattern |-> "very positive", semantic |-> "impression"],
      [pattern |-> "definitely would not", semantic |-> "purchase_intent"],
      [pattern |-> "definitely would", semantic |-> "purchase_intent"],
      [pattern |-> "not at all unique", semantic |-> "uniqueness"],
      [pattern |-> "extremely unique", semantic |-> "uniqueness"],
      [pattern |-> "not at all relevant", semantic |-> "relevance"],
      [pattern |-> "extremely relevant", semantic |-> "relevance"]
    >>

Has(template, field) == field \in DOMAIN template

(***************************************************************************)
(* Internal helpers of scale-anchors.ts.                                   *)
(***************************************************************************)
\* LABEL_TO_SEMANTIC[key]: the family of the first entry with that key, or None
LabelLookup(key) ==
    IF \E i \in 1..Len(LABEL_TO_SEMANTIC) : LABEL_TO_SEMANTIC[i].pattern = key
    THEN Some(LABEL_TO_SEMANTIC[
             CHOOSE i \in 1..Len(LABEL_TO_SEMANTIC) :
                 LABEL_TO_SEMANTIC[i].pattern = key].semantic)
    ELSE None

PartialMatches(lowNorm, highNorm) ==
    { i \in 1..Len(LABEL_TO_SEMANTIC) :
        \/ includes(lowNorm, LABEL_TO_SEMANTIC[i].pattern)
        \/ includes(highNorm, LABEL_TO_SEMANTIC[i].pattern) }

Least(S) == CHOOSE i \in S : \A j \in S : i <= j

detectSemanticFromLabels(low, high) ==
    LET lowNorm  == trim(toLowerCase(low))
        highNorm == trim(toLowerCase(high))
        fromLow  == LabelLookup(lowNorm)
        fromHigh == LabelLookup(highNorm)
        partial  == PartialMatches(lowNorm, highNorm)
    IN  IF IsSome(fromLow) THEN fromLow
        ELSE IF IsSome(fromHigh) THEN fromHigh
        ELSE IF partial # {} THEN Some(LABEL_TO_SEMANTIC[Least(partial)].semantic)
        ELSE None

inferSemanticFromText(text) ==
    LET lower == toLowerCase(text)
    IN  IF includes(lower, "satisfi") THEN Some("satisfaction")
        ELSE IF includes(lower, "agree") \/ includes(lower, "disagree")
            THEN Some("agreement")
        ELSE IF \/ includes(lower, "likely")
                \/ includes(lower, "likelihood")
                \/ includes(lower, "probability")
            THEN Some("likelihood")
        ELSE IF \/ includes(lower, "easy")
                \/ includes(lower, "difficult")
                \/ includes(lower, "ease")
            THEN Some("ease")
        ELSE IF includes(lower, "important") \/ includes(lower, "importance")
            THEN Some("importance")
        ELSE IF includes(lower, "familiar") THEN Some("familiarity")
        ELSE IF includes(lower, "appeal") THEN Some("appeal")
        ELSE IF includes(lower, "value") /\ includes(lower, "money")
            THEN Some("value")
        ELSE IF includes(lower, "trust") THEN Some("trust")
        ELSE IF includes(lower, "quality") THEN Some("quality")
        ELSE IF includes(lower, "unique") \/ includes(lower, "different")
            THEN Some("uniqueness")
        ELSE IF includes(lower, "relevant") \/ includes(lower, "relevance")
            THEN Some("relevance")
        ELSE IF includes(lower, "impression") \/ includes(lower, "overall")
            THEN Some("impression")
        ELSE IF includes(lower, "purchase") \/ includes(lower, "buy")
            THEN Some("purchase_intent")
        ELSE IF includes(lower, "recommend") THEN Some("nps")
        ELSE IF \/ includes(lower, "often")
                \/ includes(lower, "frequently")
                \/ includes(lower, "how often")
            THEN Some("frequency")
        ELSE None

\* mutant: Math.floor in place of Math.round
interpolateFromTemplate_floor(source5, targetSize) ==
    IF targetSize = 5 THEN source5
    ELSE IF targetSize <= 1 THEN << source5[3] >>
    ELSE [ k \in 1..targetSize |->
             source5[((4 * (k - 1)) \div (targetSize - 1)) + 1] ]

\* mutant: ratio = i / targetSize in place of i / (targetSize - 1)
interpolateFromTemplate_ratioOverSize(source5, targetSize) ==
    IF targetSize = 5 THEN source5
    ELSE IF targetSize <= 1 THEN << source5[3] >>
    ELSE [ k \in 1..targetSize |->
             source5[MathRound(Times(Ratio(k - 1, targetSize), 4)) + 1] ]

\* source5[nearestIdx] for each i in 0..targetSize-1 (sequences are 1-based)
interpolateFromTemplate(source5, targetSize) ==
    IF targetSize = 5 THEN source5
    ELSE IF targetSize <= 1 THEN << source5[3] >>
    ELSE [ k \in 1..targetSize |->
             LET i          == k - 1
                 ratio      == Ratio(i, targetSize - 1)
                 srcIdx     == Times(ratio, 4)
                 nearestIdx == MathRound(srcIdx)
             IN  source5[nearestIdx + 1] ]

\* mutant: the 5-point list is returned as it is, whatever the size
getAnchorsForSize_noResample(semantic, size) ==
    IF semantic \notin DOMAIN TEMPLATES THEN None
    ELSE LET template == TEMPLATES[semantic]
         IN  IF size = 11 /\ Has(template, "anchors11")
                 THEN Some(template.anchors11)
             ELSE IF size = 7 /\ Has(template, "anchors7")
                 THEN Some(template.anchors7)
             ELSE IF Len(template.anchors5) = 5 /\ size > 0
                 THEN Some(template.anchors5)
             ELSE None

getAnchorsForSize(semantic, size) ==
    IF semantic \notin DOMAIN TEMPLATES THEN None
    ELSE LET template == TEMPLATES[semantic]
         IN  IF size = 11 /\ Has(template, "anchors11")
                 THEN Some(template.anchors11)
             ELSE IF size = 7 /\ Has(template, "anchors7")
                 THEN Some(template.anchors7)
             ELSE IF size = 5 /\ Len(template.anchors5) = 5
                 THEN Some(template.anchors5)
             ELSE IF Len(template.anchors5) = 5 /\ size > 0
                 THEN Some(interpolateFromTemplate(template.anchors5, size))
             ELSE None

interpolateAnchors(low, high, size) ==
    IF size <= 1 THEN << low \o ". " \o high \o "." >>
    ELSE IF size = 2 THEN << low \o ".", high \o "." >>
    ELSE [ k \in 1..size |->
             LET i     == k - 1
                 ratio == Ratio(i, size - 1)
             IN  IF LessThan(ratio, 1, 5) THEN
                     low \o ". I feel very "
                         \o replaceIntensifier(toLowerCase(low)) \o "."
                 ELSE IF LessThan(ratio, 2, 5) THEN
                     "Leaning toward " \o toLowerCase(low)
                         \o ". I somewhat feel this way."
                 ELSE IF LessThan(ratio, 3, 5) THEN
                     "Neither " \o toLowerCase(low) \o " nor "
                         \o toLowerCase(high) \o ". I feel neutral."
                 ELSE IF LessThan(ratio, 4, 5) THEN
                     "Leaning toward " \o toLowerCase(high)
                         \o ". I somewhat feel this way."
                 ELSE
                     high \o ". I feel very "
                         \o replaceIntensifier(toLowerCase(high)) \o "." ]

(***************************************************************************)
(* resolveAnchors: the public entry point.                                 *)
(***************************************************************************)
AnchorSet(semantic, anchors, scaleMin, scaleMax) ==
    [ semantic |-> semantic, anchors |-> anchors,
      scaleMin |-> scaleMin, scaleMax |-> scaleMax ]

\* mutant: the recommendation tier keeps the question's bounds
resolveNps_questionBounds(q, scaleMin, scaleMax) ==
    AnchorSet("nps", TEMPLATES.nps.anchors11, scaleMin, scaleMax)

resolveNps(q, scaleMin, scaleMax) ==
    AnchorSet("nps", TEMPLATES.nps.anchors11, 0, 10)

\* mutant: no fallback to the 5-point list when no anchors were found
resolveDefault_noFallback(q, scaleMin, scaleMax) ==
    LET defaultAnchors == getAnchorsForSize("agreement", scaleMax - scaleMin + 1)
    IN  AnchorSet("agreement",
                  IF IsSome(defaultAnchors) THEN Val(defaultAnchors) ELSE << >>,
                  scaleMin, scaleMax)

resolveDefault(q, scaleMin, scaleMax) ==
    LET defaultAnchors == getAnchorsForSize("agreement", scaleMax - scaleMin + 1)
    IN  AnchorSet("agreement",
                  IF IsSome(defaultAnchors) THEN Val(defaultAnchors)
                  ELSE TEMPLATES.agreement.anchors5,
                  scaleMin, scaleMax)

\* mutant: labels that name no family fall through to the default tier
resolveFromLabels_defaultOnMiss(q, scaleMin, scaleMax) ==
    LET scaleSize == scaleMax - scaleMin + 1
        semantic  == detectSemanticFromLabels(Val(q.scaleAnchors).low,
                                              Val(q.scaleAnchors).high)
        anchors   == IF IsSome(semantic) /\ Val(semantic) \in DOMAIN TEMPLATES
                     THEN getAnchorsForSize(Val(semantic), scaleSize)
                     ELSE None
    IN  IF IsSome(anchors)
        THEN AnchorSet(Val(semantic), Val(anchors), scaleMin, scaleMax)
        ELSE resolveDefault(q, scaleMin, scaleMax)

resolveFromLabels(q, scaleMin, scaleMax) ==
    LET scaleSize == scaleMax - scaleMin + 1
        low       == Val(q.scaleAnchors).low
        high      == Val(q.scaleAnchors).high
        semantic  == detectSemanticFromLabels(low, high)
        anchors   == IF IsSome(semantic) /\ Val(semantic) \in DOMAIN TEMPLATES
                     THEN getAnchorsForSize(Val(semantic), scaleSize)
                     ELSE None
    IN  IF IsSome(anchors)
        THEN AnchorSet(Val(semantic), Val(anchors), scaleMin, scaleMax)
        ELSE AnchorSet("custom", interpolateAnchors(low, high, scaleSize),
                       scaleMin, scaleMax)

resolveFromText(q, scaleMin, scaleMax) ==
    LET scaleSize == scaleMax - scaleMin + 1
        inferred  == inferSemanticFromText(q.text)
        anchors   == IF IsSome(inferred) /\ Val(inferred) \in DOMAIN TEMPLATES
                     THEN getAnchorsForSize(Val(inferred), scaleSize)
                     ELSE None
    IN  IF IsSome(anchors)
        THEN AnchorSet(Val(inferred), Val(anchors), scaleMin, scaleMax)
        ELSE resolveDefault(q, scaleMin, scaleMax)

\* mutant: the question text is consulted before the labels
resolveAnchors_textBeforeLabels(q) ==
    LET scaleMin == Nullish(q.scaleMin, IF q.type = "nps" THEN 0 ELSE 1)
        scaleMax == Nullish(q.scaleMax, IF q.type = "nps" THEN 10 ELSE 5)
    IN  IF q.type = "nps" THEN resolveNps(q, scaleMin, scaleMax)
        ELSE IF IsSome(inferSemanticFromText(q.text))
            THEN resolveFromText(q, scaleMin, scaleMax)
        ELSE IF IsSome(q.scaleAnchors) THEN resolveFromLabels(q, scaleMin, scaleMax)
        ELSE resolveFromText(q, scaleMin, scaleMax)

resolveAnchors(q) ==
    LET scaleMin == Nullish(q.scaleMin, IF q.type = "nps" THEN 0 ELSE 1)
        scaleMax == Nullish(q.scaleMax, IF q.type = "nps" THEN 10 ELSE 5)
    IN  IF q.type = "nps" THEN resolveNps(q, scaleMin, scaleMax)
        ELSE IF IsSome(q.scaleAnchors) THEN resolveFromLabels(q, scaleMin, scaleMax)
        ELSE resolveFromText(q, scaleMin, scaleMax)

(***************************************************************************)
(* Numbers of the scorer.  A JavaScript number is held in fixed point, in  *)
(* units of 1/SCALE, next to the three values that are no real number:     *)
(* NaN, +Infinity and -Infinity.  Vector components, scale points and      *)
(* ratings are held as plain integers.  Every operation below gives NaN,   *)
(* +Infinity and -Infinity where IEEE-754 arithmetic gives them; a finite  *)
(* result is rounded to the nearest unit.                                  *)
(***************************************************************************)
SCALE == 10 ^ 3

PosInf == 2 * (10 ^ 9)

NegInf == 0 - PosInf

NaN == NegInf + 1

IsFinite(x) == x \notin { NaN, PosInf, NegInf }

Neg(x) == IF x = NaN THEN NaN
          ELSE IF x = PosInf THEN NegInf
          ELSE IF x = NegInf THEN PosInf
          ELSE 0 - x

Add(x, y) ==
    IF x = NaN \/ y = NaN THEN NaN
    ELSE IF x = PosInf THEN (IF y = NegInf THEN NaN ELSE PosInf)
    ELSE IF x = NegInf THEN (IF y = PosInf THEN NaN ELSE NegInf)
    ELSE IF ~IsFinite(y) THEN y
    ELSE x + y

Sub(x, y) == Add(x, Neg(y))

\* n / d rounded to the nearest integer (d # 0)
DivRound(n, d) ==
    IF d > 0 THEN (2 * n + d) \div (2 * d)
    ELSE (2 * (0 - n) - d) \div (2 * (0 - d))

\* product of two plain integers, or of a fixed-point value and an integer
Mul(x, y) == IF x = NaN \/ y = NaN THEN NaN ELSE x * y

\* product of two fixed-point values
FxMul(x, y) == IF x = NaN \/ y = NaN THEN NaN ELSE DivRound(x * y, SCALE)

\* quotient of two fixed-point values (or of two plain integers, given as
\* x * SCALE and y * SCALE): x / 0 is +-Infinity, 0 / 0 is NaN
FxDiv(x, y) ==
    IF x = NaN \/ y = NaN THEN NaN
    ELSE IF ~IsFinite(x)
        THEN (IF ~IsFinite(y) THEN NaN
              ELSE IF (y >= 0) = (x = PosInf) THEN PosInf ELSE NegInf)
    ELSE IF ~IsFinite(y) THEN 0
    ELSE IF y = 0
        THEN (IF x = 0 THEN NaN ELSE IF x > 0 THEN PosInf ELSE NegInf)
    ELSE DivRound(x * SCALE, y)

RECURSIVE SqrtIter(_, _)
SqrtIter(n, x) ==
    LET y == (x + n \div x) \div 2
    IN  IF y >= x THEN x ELSE SqrtIter(n, y)

\* the integer square root of n >= 0 (Newton's iteration)
ISqrt(n) == IF n = 0 THEN 0 ELSE SqrtIter(n, n)

\* Math.sqrt of a plain integer, as a fixed-point value
SqrtOfInt(n) == IF n = NaN THEN NaN ELSE ISqrt(n * SCALE * SCALE)

\* Math.sqrt of a fixed-point value
FxSqrt(x) == IF x = NaN THEN NaN ELSE ISqrt(x * SCALE)

RECURSIVE PowEInv(_)
\* e^(-n) for an integer n >= 0 (e^-1 = 0.368)
PowEInv(n) ==
    IF n = 0 THEN SCALE
    ELSE IF n >= 8 THEN 0
    ELSE DivRound(PowEInv(n - 1) * 368, SCALE)

RECURSIVE ExpSeries(_, _, _)
\* term - next + ... : the alternating series of e^(-f), 0 <= f < SCALE
ExpSeries(f, k, term) ==
    IF term = 0 \/ k > 12 THEN 0
    ELSE term - ExpSeries(f, k + 1, DivRound(term * f, k * SCALE))

\* Math.exp of a fixed-point value x <= 0
MathExp(x) ==
    IF x = NaN THEN NaN
    ELSE IF x = NegInf THEN 0
    ELSE IF x = PosInf THEN PosInf
    ELSE LET t == 0 - x
         IN  DivRound(PowEInv(t \div SCALE) * ExpSeries(t % SCALE, 1, SCALE), SCALE)

\* Math.round of a fixed-point value, to a plain integer: ties go up
RoundFx(x) == IF IsFinite(x) THEN (2 * x + SCALE) \div (2 * SCALE) ELSE x

\* Math.max(a, b) and Math.min(a, b): NaN when either is NaN
Max2(a, b) == IF a = NaN \/ b = NaN THEN NaN
              ELSE IF a = PosInf \/ b = PosInf THEN PosInf
              ELSE IF a = NegInf THEN b
              ELSE IF b = NegInf THEN a
              ELSE IF a >= b THEN a ELSE b

Min2(a, b) == Neg(Max2(Neg(a), Neg(b)))

RECURSIVE FoldMax(_, _)
FoldMax(xs, acc) ==
    IF Len(xs) = 0 THEN acc ELSE FoldMax(Tail(xs), Max2(acc, Head(xs)))

\* Math.max(...xs): -Infinity for an empty list
MathMax(xs) == FoldMax(xs, NegInf)

\* Math.min(...xs): +Infinity for an empty list
MathMin(xs) == Neg(FoldMax([i \in 1..Len(xs) |-> Neg(xs[i])], NegInf))

RECURSIVE Reduce(_, _)
\* xs.reduce((a, b) => a + b, acc)
Reduce(xs, acc) ==
    IF Len(xs) = 0 THEN acc ELSE Reduce(Tail(xs), Add(acc, Head(xs)))

\* v[i] of a JavaScript array (i from 0): undefined beyond the end, which
\* arithmetic turns into NaN
At(v, i) == IF i + 1 \in DOMAIN v THEN v[i + 1] ELSE NaN

(***************************************************************************)
(* VoyageEmbeddingService: the scoring methods.                            *)
(***************************************************************************)
RECURSIVE cosineLoop(_, _, _, _)
\* the for loop of cosineSimilarity from index i on; acc = <<dot, normA, normB>>
cosineLoop(a, b, i, acc) ==
    IF i >= Len(a) THEN acc
    ELSE cosineLoop(a, b, i + 1,
             << Add(acc[1], Mul(At(a, i), At(b, i))),
                Add(acc[2], Mul(At(a, i), At(a, i))),
                Add(acc[3], Mul(At(b, i), At(b, i))) >>)

cosineSimilarity(a, b) ==
    LET sums  == cosineLoop(a, b, 0, << 0, 0, 0 >>)
        dot   == sums[1]
        normA == sums[2]
        normB == sums[3]
        denom == FxMul(SqrtOfInt(normA), SqrtOfInt(normB))
    IN  IF denom = 0 THEN 0
        ELSE FxDiv(Mul(dot, SCALE), denom)

computeSimilarities(responseVec, anchorVecs) ==
    [ i \in 1..Len(anchorVecs) |-> cosineSimilarity(responseVec, anchorVecs[i]) ]

\* normalizeSimilarities without the guards on a zero range and a zero
\* standard deviation
normalizeSimilarities_noZeroGuard(similarities, method) ==
    LET n == Len(similarities)
    IN  IF method = "none" \/ n <= 1 THEN similarities
        ELSE IF method = "minmax" THEN
            LET min   == MathMin(similarities)
                max   == MathMax(similarities)
                range == Sub(max, min)
            IN  [ i \in 1..n |-> FxDiv(Sub(similarities[i], min), range) ]
        ELSE IF method = "zscore" THEN
            LET mean     == FxDiv(Reduce(similarities, 0), n * SCALE)
                squares  == [ i \in 1..n |->
                                FxMul(Sub(similarities[i], mean),
                                      Sub(similarities[i], mean)) ]
                variance == FxDiv(Reduce(squares, 0), n * SCALE)
                std      == FxSqrt(variance)
            IN  [ i \in 1..n |-> FxDiv(Sub(similarities[i], mean), std) ]
        ELSE similarities

normalizeSimilarities(similarities, method) ==
    LET n == Len(similarities)
    IN  IF method = "none" \/ n <= 1 THEN similarities
        ELSE IF method = "minmax" THEN
            LET min   == MathMin(similarities)
                max   == MathMax(similarities)
                range == Sub(max, min)
            IN  IF range = 0
                THEN [ i \in 1..n |-> DivRound(SCALE, n) ]
                ELSE [ i \in 1..n |-> FxDiv(Sub(similarities[i], min), range) ]
        ELSE IF method = "zscore" THEN
            LET mean     == FxDiv(Reduce(similarities, 0), n * SCALE)
                squares  == [ i \in 1..n |->
                                FxMul(Sub(similarities[i], mean),
                                      Sub(similarities[i], mean)) ]
                variance == FxDiv(Reduce(squares, 0), n * SCALE)
                std      == FxSqrt(variance)
            IN  IF std = 0
                THEN [ i \in 1..n |-> DivRound(SCALE, n) ]
                ELSE [ i \in 1..n |-> FxDiv(Sub(similarities[i], mean), std) ]
        ELSE similarities

\* similaritiesToDistribution returning the exponentials undivided
similaritiesToDistribution_unnormalised(similarities, temperature, normalization) ==
    LET normalized == normalizeSimilarities(similarities, normalization)
        scaled     == [ i \in 1..Len(normalized) |->
                          FxDiv(normalized[i], temperature) ]
        maxVal     == MathMax(scaled)
    IN  [ i \in 1..Len(scaled) |-> MathExp(Sub(scaled[i], maxVal)) ]

similaritiesToDistribution(similarities, temperature, normalization) ==
    LET normalized == normalizeSimilarities(similarities, normalization)
        scaled     == [ i \in 1..Len(normalized) |->
                          FxDiv(normalized[i], temperature) ]
        maxVal     == MathMax(scaled)
        exps       == [ i \in 1..Len(scaled) |-> MathExp(Sub(scaled[i], maxVal)) ]
        sumExps    == Reduce(exps, 0)
    IN  [ i \in 1..Len(exps) |-> FxDiv(exps[i], sumExps) ]

RECURSIVE ratingLoop(_, _, _, _)
\* the for loop of distributionToRating from index i on
ratingLoop(distribution, scaleMin, i, weightedSum) ==
    IF i >= Len(distribution) THEN weightedSum
    ELSE ratingLoop(distribution, scaleMin, i + 1,
             Add(weightedSum, Mul(At(distribution, i), scaleMin + i)))

distributionToRating(distribution, scaleMin) ==
    RoundFx(ratingLoop(distribution, scaleMin, 0, 0))

RECURSIVE LnLoop(_, _)
\* the natural logarithm of a fixed-point value x > 0; k counts the
\* halvings (k > 0) or doublings (k < 0) that brought x into [1, 2), where
\* ln x = 2 * (z + z^3/3 + z^5/5 + z^7/7) with z = (x - 1) / (x + 1)
LnLoop(x, k) ==
    IF x >= 2 * SCALE THEN LnLoop(DivRound(x, 2), k + 1)
    ELSE IF x < SCALE THEN LnLoop(2 * x, k - 1)
    ELSE LET z  == DivRound((x - SCALE) * SCALE, x + SCALE)
             z2 == DivRound(z * z, SCALE)
             z3 == DivRound(z * z2, SCALE)
             z5 == DivRound(z3 * z2, SCALE)
             z7 == DivRound(z5 * z2, SCALE)
         IN  2 * (z + DivRound(z3, 3) + DivRound(z5, 5) + DivRound(z7, 7))
             + k * 693

\* Math.log of a fixed-point value
MathLog(x) ==
    IF x = NaN \/ x = NegInf THEN NaN
    ELSE IF x = PosInf THEN PosInf
    ELSE IF x < 0 THEN NaN
    ELSE IF x = 0 THEN NegInf
    ELSE LnLoop(x, 0)

RECURSIVE entropyLoop(_, _, _)
\* Shannon entropy of the entries from index i on: - sum of p * ln p, an
\* entry of probability 0 adding nothing
entropyLoop(distribution, i, entropy) ==
    IF i >= Len(distribution) THEN entropy
    ELSE LET p == At(distribution, i)
         IN  entropyLoop(distribution, i + 1,
                 IF p = 0 THEN entropy
                 ELSE Sub(entropy, FxMul(p, MathLog(p))))

\* normalizedEntropy of ./statistics, which the sources at hand do not
\* include: Shannon entropy divided by the logarithm of the number of
\* entries (the quotient is the same in base 2 and in base e).
normalizedEntropy(distribution) ==
    FxDiv(entropyLoop(distribution, 0, 0), MathLog(Len(distribution) * SCALE))

\* Math.round((1 - normalizedEntropy(distribution)) * 100) / 100
confidenceOf(distribution) ==
    LET hundredths == RoundFx(Mul(Sub(SCALE, normalizedEntropy(distribution)), 100))
    IN  FxDiv(Mul(hundredths, SCALE), 100 * SCALE)

\* mapResponseToScale from the similarities on: distribution, rating, clamp,
\* confidence.
scoreSimilarities(similarities, scaleMin, scaleMax, temperature, normalization) ==
    LET distribution  == similaritiesToDistribution(similarities, temperature,
                                                    normalization)
        rating        == distributionToRating(distribution, scaleMin)
        clampedRating == Min2(Max2(rating, scaleMin), scaleMax)
    IN  [ rating          |-> clampedRating,
          distribution    |-> distribution,
          confidence      |-> confidenceOf(distribution),
          rawSimilarities |-> similarities,
          mappingMethod   |-> "embedding-v1" ]

\* mapResponseToScale from the two vectors on
scoreResponse(responseVec, anchorVecs, scaleMin, scaleMax, temperature, normalization) ==
    scoreSimilarities(computeSimilarities(responseVec, anchorVecs),
                      scaleMin, scaleMax, temperature, normalization)

\* How an async call settles.  mapResponseToScale has no throw statement and
\* none of the operations above throws on numbers, so with vectors at hand
\* its promise is always fulfilled with the record it returns.
Fulfilled(v) == [ status |-> "fulfilled", value |-> v ]

(***************************************************************************)
(* The questions the model resolves.                                       *)
(***************************************************************************)
MaxScaleMin == 2

MaxScaleMax == 11

Types == { "likert", "nps", "multiple_choice" }

ScaleMins == { None } \cup { Some(m) : m \in 0..MaxScaleMin }

ScaleMaxs == { None } \cup { Some(m) : m \in 0..MaxScaleMax }

LabelPairs ==
    { [low |-> "Very dissatisfied",    high |-> "Very satisfied"],
      [low |-> "  Strongly Disagree ", high |-> " STRONGLY AGREE"],
      [low |-> "Bad",                  high |-> "Excellent"],
      [low |-> "Not at all confident", high |-> "Extremely confident"],
      [low |-> "Cold",                 high |-> "Hot"],
      [low |-> "Very cold",            high |-> "Extremely hot"],
      [low |-> "Hot",                  high |-> "Cold"] }

Texts ==
    { "How satisfied are you with the checkout experience?",
      "I am satisfied with the overall quality of this product.",
      "Do you AGREE or disagree with this statement?",
      "How likely are you to recommend us to a friend?",
      "Would you Recommend this product?",
      "How easy was it to find what you needed?",
      "How often do you buy groceries online?",
      "How often do you exercise?",
      "Is this good value for money?",
      "What value does this add?",
      "How much do you trust this brand?",
      "What is your overall impression?",
      "What is your favourite colour?" }

Questions ==
    [ type         : Types,
      text         : Texts,
      scaleMin     : ScaleMins,
      scaleMax     : ScaleMaxs,
      scaleAnchors : { None } \cup { Some(p) : p \in LabelPairs } ]

(***************************************************************************)
(* The scoring calls the model makes.  Vectors have integer components;    *)
(* one vector of another dimension and the empty anchor list stand for the *)
(* malformed inputs.  Temperatures are fixed-point values (200 is 0.2).    *)
(***************************************************************************)
MaxAnchorVecs == 3

Vectors ==
    { << 0, 0 >>, << 1, 0 >>, << 1, 1 >>, << -1, 1 >>, << 1, 0, 1 >> }

Temperatures == { 0 - 200, 0, 200, 1000 }

Normalizations == { "none", "minmax", "zscore" }

AnchorVecLists ==
    UNION { [ 1..n -> Vectors ] : n \in 0..MaxAnchorVecs }

ScoreInputs ==
    { [ responseVec   |-> r,
        anchorVecs    |-> a,
        scaleMin      |-> lo,
        scaleMax      |-> lo + Len(a) - 1,
        temperature   |-> t,
        normalization |-> m ] :
      r \in Vectors, a \in AnchorVecLists, lo \in { 0, 1 },
      t \in Temperatures, m \in Normalizations }

(***************************************************************************)
(* 32-bit words of the calibration script's generator.  A word is a pair   *)
(* << high, low >> of 16-bit halves, so that every intermediate value      *)
(* stays below 2^31; the operations are JavaScript's on 32-bit integers    *)
(* (^, |, >>>, Math.imul, and + followed by the wrap to 32 bits).          *)
(***************************************************************************)
\* const x = value; body: the value is computed once, where it is declared
Bind(value, body(_)) == CHOOSE r \in { body(x) : x \in { value } } : TRUE

HALF == 2 ^ 16

RECURSIVE Xor16(_, _, _)
\* a ^ b on k-bit values
Xor16(a, b, k) ==
    IF k = 0 THEN 0
    ELSE ((a + b) % 2) + 2 * Xor16(a \div 2, b \div 2, k - 1)

RECURSIVE Or16(_, _, _)
\* a | b on k-bit values
Or16(a, b, k) ==
    IF k = 0 THEN 0
    ELSE (IF a % 2 = 1 \/ b % 2 = 1 THEN 1 ELSE 0)
         + 2 * Or16(a \div 2, b \div 2, k - 1)

WordXor(a, b) == << Xor16(a[1], b[1], 16), Xor16(a[2], b[2], 16) >>

\* a | c for a small constant c < 2^16
WordOr(a, c) == << a[1], Or16(a[2], c, 16) >>

\* (a + b) wrapped to 32 bits
WordAdd(a, b) ==
    LET low == a[2] + b[2]
    IN  << (a[1] + b[1] + low \div HALF) % HALF, low % HALF >>

\* a >>> k for 0 < k < 16
WordShr(a, k) ==
    << a[1] \div (2 ^ k),
       a[2] \div (2 ^ k) + (a[1] % (2 ^ k)) * (2 ^ (16 - k)) >>

\* the product of two 16-bit values, as a word
HalfMul(x, y) ==
    LET p1  == x * (y % 256)
        p2  == x * (y \div 256)
        low == (p1 % HALF) + (p2 % 256) * 256
    IN  << p1 \div HALF + p2 \div 256 + low \div HALF, low % HALF >>

\* Math.imul(a, b): the low 32 bits of the product
imul(a, b) ==
    LET ll    == HalfMul(a[2], b[2])
        cross == (HalfMul(a[1], b[2])[2] + HalfMul(a[2], b[1])[2]) % HALF
    IN  << (ll[1] + cross) % HALF, ll[2] >>

(***************************************************************************)
(* The calibration script (cross-validation.ts): its configuration, the    *)
(* seeded generator and the shuffle.                                       *)
(***************************************************************************)
NORMALIZATION == "minmax"

\* [0.05, 0.1, 0.15, 0.2, 0.25, 0.3, 0.4, 0.5]
CANDIDATE_TEMPS ==
    << SCALE \div 20, SCALE \div 10, (3 * SCALE) \div 20, SCALE \div 5,
       SCALE \div 4, (3 * SCALE) \div 10, (2 * SCALE) \div 5, SCALE \div 2 >>

\* the seed 42, as a word
SEED == << 0, 42 >>

\* mulberry32(seed): the generator is its closure variable seed
mulberry32(seed) == [ seed |-> seed ]

\* one call of the generator: the word it returns (the call's value is this
\* word divided by 2^32) and the generator after the call
rngCall(rng) ==
    Bind(WordAdd(rng.seed, << 27947, 31221 >>), LAMBDA seed :
    Bind(imul(WordXor(seed, WordShr(seed, 15)), WordOr(seed, 1)), LAMBDA t1 :
    Bind(WordXor(t1, WordAdd(t1, imul(WordXor(t1, WordShr(t1, 7)),
                                      WordOr(t1, 61)))), LAMBDA t2 :
        [ word |-> WordXor(t2, WordShr(t2, 14)), rng |-> [ seed |-> seed ] ])))

\* Math.floor(value * n) for the value word / 2^32 and 0 < n < 2^15
floorTimes(word, n) == (word[1] * n + (word[2] * n) \div HALF) \div HALF

\* arr[i] = arr[j] alone: the element at i is lost
swap_overwrite(arr, i, j) ==
    [ k \in 1..Len(arr) |-> IF k = i + 1 THEN arr[j + 1] ELSE arr[k] ]

\* [arr[i], arr[j]] = [arr[j], arr[i]], indices from 0
swap(arr, i, j) ==
    [ k \in 1..Len(arr) |->
        IF k = i + 1 THEN arr[j + 1] ELSE IF k = j + 1 THEN arr[i + 1] ELSE arr[k] ]

RECURSIVE shuffleLoop(_, _, _)
\* the for loop of shuffle from index i down; returns the array and the
\* generator after the loop
shuffleLoop(shuffled, rng, i) ==
    IF i <= 0 THEN [ shuffled |-> shuffled, rng |-> rng ]
    ELSE Bind(rngCall(rng), LAMBDA call :
         Bind(floorTimes(call.word, i + 1), LAMBDA j :
         Bind(swap(shuffled, i, j), LAMBDA swapped :
             shuffleLoop(swapped, call.rng, i - 1))))

shuffle(arr, rng) == shuffleLoop(arr, rng, Len(arr) - 1)

(***************************************************************************)
(* The calibration script: evaluation, temperature search, leave-one-      *)
(* domain-out validation and bootstrap.  A case is an EmbeddedTestCase:    *)
(* its label, domain, raw similarities (the field anchorVecs), bounds and  *)
(* expected rating.                                                        *)
(***************************************************************************)
RECURSIVE evaluateLoop(_, _, _, _)
\* the for loop of evaluate from case k on; acc = <<exact, withinOne, totalError>>
evaluateLoop(cases, temperature, k, acc) ==
    IF k > Len(cases) THEN acc
    ELSE Bind(cases[k], LAMBDA tc :
         Bind(similaritiesToDistribution(tc.anchorVecs, temperature,
                                         NORMALIZATION), LAMBDA dist :
         Bind(distributionToRating(dist, tc.scaleMin), LAMBDA rating :
         Bind(Min2(Max2(rating, tc.scaleMin), tc.scaleMax), LAMBDA clamped :
         Bind(IF clamped = NaN THEN NaN
              ELSE IF clamped >= tc.expected THEN clamped - tc.expected
              ELSE tc.expected - clamped, LAMBDA err :
         Bind(<< IF err = 0 THEN acc[1] + 1 ELSE acc[1],
                 IF err # NaN /\ err <= 1 THEN acc[2] + 1 ELSE acc[2],
                 Add(acc[3], err) >>, LAMBDA sums :
             evaluateLoop(cases, temperature, k + 1, sums)))))))

\* x / n * 100 rounded, for plain integers x and n
Percent(x, n) == RoundFx(Mul(FxDiv(Mul(x, SCALE), n * SCALE), 100))

evaluate(cases, temperature) ==
    Bind(evaluateLoop(cases, temperature, 1, << 0, 0, 0 >>), LAMBDA sums :
        [ exact        |-> sums[1],
          withinOne    |-> sums[2],
          mae          |-> FxDiv(Mul(sums[3], SCALE), Len(cases) * SCALE),
          total        |-> Len(cases),
          exactPct     |-> Percent(sums[1], Len(cases)),
          withinOnePct |-> Percent(sums[2], Len(cases)) ])

\* a < b on numbers: false when either is NaN
Less(a, b) == a # NaN /\ b # NaN /\ a < b

RECURSIVE findBestTempLoop_lastOnTies(_, _, _)
\* findBestTemp taking a later candidate that is as good
findBestTempLoop_lastOnTies(trainCases, k, best) ==
    IF k > Len(CANDIDATE_TEMPS) THEN best
    ELSE Bind(CANDIDATE_TEMPS[k], LAMBDA temp :
         Bind(evaluate(trainCases, temp), LAMBDA result :
         Bind(IF \/ result.exact > best.result.exact
                 \/ /\ result.exact = best.result.exact
                    /\ ~Less(best.result.mae, result.mae)
              THEN [ temp |-> temp, result |-> result ]
              ELSE best, LAMBDA better :
             findBestTempLoop_lastOnTies(trainCases, k + 1, better))))

RECURSIVE findBestTempLoop(_, _, _)
\* the for loop of findBestTemp from candidate k on
findBestTempLoop(trainCases, k, best) ==
    IF k > Len(CANDIDATE_TEMPS) THEN best
    ELSE Bind(CANDIDATE_TEMPS[k], LAMBDA temp :
         Bind(evaluate(trainCases, temp), LAMBDA result :
         Bind(IF \/ result.exact > best.result.exact
                 \/ /\ result.exact = best.result.exact
                    /\ Less(result.mae, best.result.mae)
              THEN [ temp |-> temp, result |-> result ]
              ELSE best, LAMBDA better :
             findBestTempLoop(trainCases, k + 1, better))))

findBestTemp(trainCases) ==
    Bind([ temp   |-> CANDIDATE_TEMPS[1],
           result |-> evaluate(trainCases, CANDIDATE_TEMPS[1]) ], LAMBDA best :
        findBestTempLoop(trainCases, 2, best))

RECURSIVE Distinct(_, _)
\* [...new Set(xs)]: the values of xs in the order of their first occurrence
Distinct(xs, seen) ==
    IF Len(xs) = 0 THEN seen
    ELSE Distinct(Tail(xs),
                  IF \E i \in 1..Len(seen) : seen[i] = Head(xs)
                  THEN seen ELSE Append(seen, Head(xs)))

\* getDomains() of ground-truth-v2: the domains of TEST_CASES, which the
\* embedded cases list one for one
getDomains(cases) == Distinct([ i \in 1..Len(cases) |-> cases[i].domain ], << >>)

InDomain(cases, domain)  == SelectSeq(cases, LAMBDA tc : tc.domain = domain)

OutOfDomain(cases, domain) == SelectSeq(cases, LAMBDA tc : tc.domain # domain)

\* one pass of runLODO's loop, with everything as training cases
lodoFold_trainOnAll(embedded, holdout) ==
    Bind(InDomain(embedded, holdout), LAMBDA testCases :
    Bind(findBestTemp(embedded), LAMBDA best :
        [ heldOutDomain  |-> holdout,
          calibratedTemp |-> best.temp,
          trainResult    |-> best.result,
          testResult     |-> evaluate(testCases, best.temp) ]))

\* one pass of runLODO's loop
lodoFold(embedded, holdout) ==
    Bind(OutOfDomain(embedded, holdout), LAMBDA trainCases :
    Bind(InDomain(embedded, holdout), LAMBDA testCases :
    Bind(findBestTemp(trainCases), LAMBDA best :
        [ heldOutDomain  |-> holdout,
          calibratedTemp |-> best.temp,
          trainResult    |-> best.result,
          testResult     |-> evaluate(testCases, best.temp) ])))

RECURSIVE ReduceBy(_, _, _)
\* results.reduce((s, r) => s + f(r), acc)
ReduceBy(results, f(_), acc) ==
    IF Len(results) = 0 THEN acc
    ELSE ReduceBy(Tail(results), f, Add(acc, f(Head(results))))

\* runLODO: the fold results it returns and the pooled totals it reports
runLODO(embedded) ==
    Bind(getDomains(embedded), LAMBDA domains :
    Bind([ d \in 1..Len(domains) |-> lodoFold(embedded, domains[d]) ], LAMBDA results :
    Bind(ReduceBy(results, LAMBDA r : r.testResult.total, 0), LAMBDA totalTestCases :
        [ results            |-> results,
          totalTestExact     |-> ReduceBy(results, LAMBDA r : r.testResult.exact, 0),
          totalTestWithinOne |-> ReduceBy(results, LAMBDA r : r.testResult.withinOne, 0),
          totalTestCases     |-> totalTestCases,
          totalTestMAE       |->
              FxDiv(ReduceBy(results,
                             LAMBDA r : Mul(r.testResult.mae, r.testResult.total), 0),
                    totalTestCases * SCALE) ])))

\* the number of bootstrap repeats (100 in the script)
BOOTSTRAP_REPEATS == 3

\* 0.7
BOOTSTRAP_TRAIN_RATIO == (7 * SCALE) \div 10

RECURSIVE Insert(_, _)
Insert(sorted, x) ==
    IF Len(sorted) = 0 THEN << x >>
    ELSE IF x < Head(sorted) THEN << x >> \o sorted
    ELSE << Head(sorted) >> \o Insert(Tail(sorted), x)

RECURSIVE SortAsc(_)
\* [...xs].sort((a, b) => a - b)
SortAsc(xs) == IF Len(xs) = 0 THEN << >> ELSE Insert(SortAsc(Tail(xs)), Head(xs))

Labels(cases) == [ k \in 1..Len(cases) |-> cases[k].label ]

\* one pass of runBootstrap's loop: shuffle, split, calibrate on train,
\* evaluate on test; rng is the generator the pass starts with
bootstrapRepeat(embedded, rng) ==
    Bind(shuffle(embedded, rng), LAMBDA sh :
    Bind((Len(sh.shuffled) * BOOTSTRAP_TRAIN_RATIO) \div SCALE, LAMBDA splitIdx :
    Bind(SubSeq(sh.shuffled, 1, splitIdx), LAMBDA train :
    Bind(SubSeq(sh.shuffled, splitIdx + 1, Len(sh.shuffled)), LAMBDA test :
    Bind(findBestTemp(train).temp, LAMBDA temp :
    Bind(evaluate(test, temp), LAMBDA testResult :
        [ rng          |-> sh.rng,
          shuffled     |-> Labels(sh.shuffled),
          train        |-> Labels(train),
          test         |-> Labels(test),
          temp         |-> temp,
          exactPct     |-> testResult.exactPct,
          withinOnePct |-> testResult.withinOnePct,
          mae          |-> testResult.mae ]))))))

RECURSIVE bootstrapLoop(_, _, _, _)
\* the for loop of runBootstrap from repeat i on; done lists the passes made
bootstrapLoop(embedded, rng, i, done) ==
    IF i >= BOOTSTRAP_REPEATS THEN done
    ELSE Bind(bootstrapRepeat(embedded, rng), LAMBDA pass :
         Bind(Append(done, pass), LAMBDA passes :
             bootstrapLoop(embedded, pass.rng, i + 1, passes)))

\* the seed runBootstrap creates its generator with; clock is the time of
\* the run, which the function does not read
bootstrapSeed_fromClock(clock) == << 0, clock >>

bootstrapSeed(clock) == SEED

\* runBootstrap: the four arrays it returns, the interval bounds it reports
\* and, per repeat, the shuffled order and the split (by case labels)
runBootstrap(embedded, clock) ==
    Bind(bootstrapLoop(embedded, mulberry32(bootstrapSeed(clock)), 0, << >>),
         LAMBDA passes :
    LET exactPcts     == [ i \in 1..Len(passes) |-> passes[i].exactPct ]
        withinOnePcts == [ i \in 1..Len(passes) |-> passes[i].withinOnePct ]
        maes          == [ i \in 1..Len(passes) |-> passes[i].mae ]
        temps         == [ i \in 1..Len(passes) |-> passes[i].temp ]
        lo            == (BOOTSTRAP_REPEATS * 25) \div 1000
        hi            == (BOOTSTRAP_REPEATS * 975) \div 1000
        interval(xs)  == << At(SortAsc(xs), lo), At(SortAsc(xs), hi) >>
    IN  [ exactPcts     |-> exactPcts,
          withinOnePcts |-> withinOnePcts,
          maes          |-> maes,
          temps         |-> temps,
          intervals     |-> [ exactPct     |-> interval(exactPcts),
                              withinOnePct |-> interval(withinOnePcts),
                              mae          |-> interval(maes),
                              temp         |-> interval(temps) ],
          splits        |-> [ i \in 1..Len(passes) |->
                                [ shuffled |-> passes[i].shuffled,
                                  train    |-> passes[i].train,
                                  test     |-> passes[i].test ] ] ])

(***************************************************************************)
(* The labeled data the model calibrates on: up to MaxCases cases, each    *)
(* one of a few kinds on a three-point scale.  With the similarities       *)
(* (0.88, 0.7, 0.9) the rating is 3 at temperature 0.05 and 2 above; with  *)
(* (0.85, 0.7, 0.9) it is 3 up to 0.2; with (0.8, 0.7, 0.9) up to 0.4;     *)
(* with (0.6, 0.7, 0.9) it is 3 at every candidate.                        *)
(***************************************************************************)
MaxCases == 3

CaseKinds ==
    { [ domain |-> "satisfaction", anchorVecs |-> << 880, 700, 900 >>, expected |-> 3 ],
      [ domain |-> "satisfaction", anchorVecs |-> << 850, 700, 900 >>, expected |-> 2 ],
      [ domain |-> "likelihood",   anchorVecs |-> << 880, 700, 900 >>, expected |-> 1 ],
      [ domain |-> "likelihood",   anchorVecs |-> << 600, 700, 900 >>, expected |-> 3 ],
      [ domain |-> "agreement",    anchorVecs |-> << 800, 700, 900 >>, expected |-> 2 ] }

\* the case of kind at position label of the data
EmbeddedTestCase(label, kind) ==
    [ label      |-> label,
      domain     |-> kind.domain,
      anchorVecs |-> kind.anchorVecs,
      scaleMin   |-> 1,
      scaleMax   |-> 3,
      expected   |-> kind.expected ]

Datasets ==
    UNION { { [ k \in 1..n |-> EmbeddedTestCase(k, kinds[k]) ] :
              kinds \in [ 1..n -> CaseKinds ] } : n \in 0..MaxCases }

\* the times a bootstrap run may be started at; a later run has a later time
Clocks == { 1, 2 }

\* a synchronous call that returned v
Returned(v) == [ status |-> "returned", value |-> v ]

(***************************************************************************)
(* The similarity vectors the model scores directly: finite similarities   *)
(* of up to MaxSims anchors, on a scale that starts at 0 or 1 and has one  *)
(* point per anchor.                                                       *)
(***************************************************************************)
MaxSims == 5

SimValues == { 0 - 300, 600, 700 }

SimTemperatures == Temperatures \cup { SCALE \div 20 }

SimVectors == UNION { [ 1..n -> SimValues ] : n \in 0..MaxSims }

SimInputs ==
    { [ similarities  |-> v,
        scaleMin      |-> lo,
        scaleMax      |-> lo + Len(v) - 1,
        temperature   |-> t,
        normalization |-> m ] :
      v \in SimVectors, lo \in { 0, 1 },
      t \in SimTemperatures, m \in Normalizations }

(***************************************************************************)
(* The embedding provider.  The Voyage API answers one vector per text;    *)
(* the model takes a fixed two-dimensional vector per text, read off the   *)
(* text's length, so that equal texts get equal vectors and different      *)
(* anchor statements mostly get different ones.                            *)
(***************************************************************************)
Embedding(text) == << (Len(text) % 5) - 2, (Len(text) % 3) - 1 >>

embed(texts) == [ i \in 1..Len(texts) |-> Embedding(texts[i]) ]

\* returns the vectors and the cache after the call
getOrComputeAnchorEmbeddings(cache, cacheKey, anchorTexts) ==
    IF cacheKey \in DOMAIN cache
    THEN [ embeddings |-> cache[cacheKey], cache |-> cache ]
    ELSE LET embeddings == embed(anchorTexts)
         IN  [ embeddings |-> embeddings,
               cache      |-> (cacheKey :> embeddings) @@ cache ]

mapResponseToScale(cache, text, anchorTexts, anchorCacheKey, scaleMin, scaleMax, temperature, normalization) ==
    LET got         == getOrComputeAnchorEmbeddings(cache, anchorCacheKey, anchorTexts)
        responseVec == embed(<< text >>)[1]
    IN  [ result |-> scoreResponse(responseVec, got.embeddings, scaleMin, scaleMax,
                                   temperature, normalization),
          cache  |-> got.cache ]

(***************************************************************************)
(* SSREngine: the constructor's embedding settings and mapToLikert.        *)
(***************************************************************************)
DEFAULT_EMBEDDING_TEMPERATURE == SCALE \div 5

DEFAULT_SIMILARITY_NORMALIZATION == "minmax"

SSREngine(config) ==
    [ embeddingTemperature    |-> OrElse(config.embeddingTemperature,
                                         DEFAULT_EMBEDDING_TEMPERATURE),
      similarityNormalization |-> Nullish(config.similarityNormalization,
                                          DEFAULT_SIMILARITY_NORMALIZATION) ]

\* the bounds mapToLikert computes for the question
mapToLikertScaleMax(q) ==
    IF q.type = "nps" THEN 10 ELSE OrElse(q.scaleMax, 5)

mapToLikertScaleMin(q) ==
    OrElse(q.scaleMin, IF q.type = "nps" THEN 0 ELSE 1)

\* `${anchorSet.semantic}-${anchorSet.anchors.length}`
cacheKey(set) == set.semantic \o "-" \o ToString(Len(set.anchors))

\* the embedding branch of mapToLikert: the service is there and its call
\* returns
mapToLikert(cache, eng, textResponse, q) ==
    LET set == resolveAnchors(q)
    IN  mapResponseToScale(cache, textResponse, set.anchors, cacheKey(set),
                           mapToLikertScaleMin(q), mapToLikertScaleMax(q),
                           eng.embeddingTemperature, eng.similarityNormalization)

(***************************************************************************)
(* The engines and the mapping calls the model makes.                      *)
(***************************************************************************)
MaxMapCalls == 2

Configs ==
    [ embeddingTemperature    : { None, Some(0), Some(SCALE \div 2) },
      similarityNormalization : { None, Some("zscore") } ]

MapQuestions ==
    [ type         : { "likert", "nps" },
      text         : { "What is your overall impression?" },
      scaleMin     : { None, Some(0), Some(1) },
      scaleMax     : { None, Some(4) },
      scaleAnchors : { None,
                       Some([low |-> "Very dissatisfied", high |-> "Very satisfied"]) } ]

Responses ==
    { "I really liked it, it does everything I need.",
      "Honestly I would not buy it again." }

(***************************************************************************)
(* SSREngine's request limiter: checkRateLimit and callWithRetry.  Times   *)
(* are milliseconds.  The model's clock advances in steps of TickMs, and a *)
(* timer fires at a step where its time has come.                          *)
(***************************************************************************)
\* the limit of requests per minute (40 in the engine)
MAX_REQUESTS_PER_MINUTE == 2

\* the number of personas simulated at a time (4 in the engine)
PARALLEL_PERSONAS == 2

\* the default of callWithRetry's parameter
maxRetries == 3

MINUTE == 60 * 1000

TickMs == 10 * 1000

MaxNow == 9 * TickMs

\* checkRateLimit up to its await: the counter and the reset time it leaves
\* and, when the limit is reached, the time it waits for
checkRateLimit(count, last, t) ==
    LET elapsed  == t - last
        expired  == elapsed >= MINUTE
        counted  == IF expired THEN 0 ELSE count
        resetAt  == IF expired THEN t ELSE last
    IN  IF counted >= MAX_REQUESTS_PER_MINUTE
        THEN [ requestCount  |-> counted,
               lastResetTime |-> resetAt,
               waitTime      |-> Some(MINUTE - elapsed + 1000) ]
        ELSE [ requestCount  |-> counted + 1,
               lastResetTime |-> resetAt,
               waitTime      |-> None ]

\* the times of the latest MAX_REQUESTS_PER_MINUTE + 1 passes, with one at t
\* added
Passed(passes, t) ==
    IF Len(passes) <= MAX_REQUESTS_PER_MINUTE THEN Append(passes, t)
    ELSE Append(Tail(passes), t)

\* a caller outside callWithRetry
Idle == [ pc |-> "idle", attempt |-> 0, due |-> 0 ]

RateIdle ==
    /\ now = 0
    /\ requestCount = 0
    /\ lastResetTime = 0
    /\ callers = << >>
    /\ recentPasses = << >>

FetchIdle ==
    /\ fetching = None
    /\ fetchLog = << >>
    /\ embedOut = None

PanelIdle ==
    /\ panel = None
    /\ personaRuns = << >>
    /\ panelResults = << >>
    /\ completedCount = 0
    /\ progressLog = << >>
    /\ polls = 0
    /\ panelOut = None

PersonaIdle ==
    /\ simulation = None
    /\ generationCalls = << >>
    /\ personaOut = None

LikertIdle ==
    /\ likertCall = None
    /\ likertOut = None

GenerateIdle ==
    /\ generating = None
    /\ generatedTexts = << >>
    /\ checkpoint = None
    /\ generateOut = None

EngineIdle ==
    /\ RateIdle
    /\ FetchIdle
    /\ PanelIdle
    /\ PersonaIdle
    /\ LikertIdle
    /\ GenerateIdle

CoreIdle ==
    /\ question = None
    /\ anchorSet = None
    /\ scoreIn = None
    /\ scoreOut = None
    /\ engine = None
    /\ anchorCache = << >>
    /\ mapOut = None
    /\ mapCalls = 0
    /\ simIn = None
    /\ simOut = None
    /\ embeddedCases = << >>
    /\ lodoOut = None
    /\ bootRuns = << >>
    /\ sharedRng = None
    /\ repeatOut = << >>
    /\ foldOut = << >>
    /\ mappings = << >>
    /\ providerCalls = << >>

(***************************************************************************)
(* Specification of the resolver: a question is drawn, resolveAnchors is   *)
(* applied to it.                                                          *)
(***************************************************************************)
InitResolve ==
    /\ EngineIdle
    /\ question \in Questions
    /\ anchorSet = None
    /\ scoreIn = None
    /\ scoreOut = None
    /\ engine = None
    /\ anchorCache = << >>
    /\ mapOut = None
    /\ mapCalls = 0
    /\ simIn = None
    /\ simOut = None
    /\ embeddedCases = << >>
    /\ lodoOut = None
    /\ bootRuns = << >>
    /\ sharedRng = None
    /\ repeatOut = << >>
    /\ foldOut = << >>
    /\ mappings = << >>
    /\ providerCalls = << >>

ResolveAnchors ==
    /\ anchorSet = None
    /\ anchorSet' = Some(resolveAnchors(question))
    /\ UNCHANGED << question, scoreVars, mapVars, simVars, calibVars, orderVars, cacheVars,
                    engineVars >>

NextResolve == ResolveAnchors

SpecResolve == InitResolve /\ [][NextResolve]_vars

(***************************************************************************)
(* Specification of the scorer: the arguments of a call are drawn, the     *)
(* scoring part of mapResponseToScale is applied to them.                  *)
(***************************************************************************)
InitScore ==
    /\ EngineIdle
    /\ scoreIn \in { Some(i) : i \in ScoreInputs }
    /\ scoreOut = None
    /\ question = None
    /\ anchorSet = None
    /\ engine = None
    /\ anchorCache = << >>
    /\ mapOut = None
    /\ mapCalls = 0
    /\ simIn = None
    /\ simOut = None
    /\ embeddedCases = << >>
    /\ lodoOut = None
    /\ bootRuns = << >>
    /\ sharedRng = None
    /\ repeatOut = << >>
    /\ foldOut = << >>
    /\ mappings = << >>
    /\ providerCalls = << >>

Score ==
    /\ scoreOut = None
    /\ scoreOut' = Some(Fulfilled(scoreResponse(Val(scoreIn).responseVec,
                                      Val(scoreIn).anchorVecs,
                                      Val(scoreIn).scaleMin,
                                      Val(scoreIn).scaleMax,
                                      Val(scoreIn).temperature,
                                      Val(scoreIn).normalization)))
    /\ UNCHANGED << scoreIn, resolveVars, mapVars, simVars, calibVars, orderVars, cacheVars,
                    engineVars >>

NextScore == Score

SpecScore == InitScore /\ [][NextScore]_vars

(***************************************************************************)
(* Specification of the distribution: a similarity vector is drawn, the    *)
(* part of mapResponseToScale that follows computeSimilarities is applied. *)
(***************************************************************************)
InitSim ==
    /\ EngineIdle
    /\ simIn \in { Some(i) : i \in SimInputs }
    /\ simOut = None
    /\ question = None
    /\ anchorSet = None
    /\ scoreIn = None
    /\ scoreOut = None
    /\ engine = None
    /\ anchorCache = << >>
    /\ mapOut = None
    /\ mapCalls = 0
    /\ embeddedCases = << >>
    /\ lodoOut = None
    /\ bootRuns = << >>
    /\ sharedRng = None
    /\ repeatOut = << >>
    /\ foldOut = << >>
    /\ mappings = << >>
    /\ providerCalls = << >>

ScoreSimilarities ==
    /\ simOut = None
    /\ simOut' = Some(scoreSimilarities(Val(simIn).similarities,
                                        Val(simIn).scaleMin,
                                        Val(simIn).scaleMax,
                                        Val(simIn).temperature,
                                        Val(simIn).normalization))
    /\ UNCHANGED << simIn, resolveVars, scoreVars, mapVars, calibVars, orderVars, cacheVars,
                    engineVars >>

NextSim == ScoreSimilarities

SpecSim == InitSim /\ [][NextSim]_vars

(***************************************************************************)
(* Specification of the calibration: the embedded cases are drawn; main    *)
(* runs runLODO and then runBootstrap on them; the script may be run a     *)
(* second time on the same cases, at another time.                         *)
(***************************************************************************)
InitCalib ==
    /\ EngineIdle
    /\ embeddedCases \in Datasets
    /\ lodoOut = None
    /\ bootRuns = << >>
    /\ sharedRng = None
    /\ repeatOut = << >>
    /\ foldOut = << >>
    /\ mappings = << >>
    /\ providerCalls = << >>
    /\ question = None
    /\ anchorSet = None
    /\ scoreIn = None
    /\ scoreOut = None
    /\ engine = None
    /\ anchorCache = << >>
    /\ mapOut = None
    /\ mapCalls = 0
    /\ simIn = None
    /\ simOut = None

RunLODO ==
    /\ lodoOut = None
    /\ lodoOut' = Some(Returned(runLODO(embeddedCases)))
    /\ UNCHANGED << embeddedCases, bootRuns, orderVars, cacheVars,
                    resolveVars, scoreVars, mapVars, simVars,
                    engineVars >>

RunBootstrap ==
    /\ lodoOut # None
    /\ \E clock \in Clocks :
          /\ \A r \in 1..Len(bootRuns) : bootRuns[r].clock < clock
          /\ bootRuns' = Append(bootRuns,
                             [ clock   |-> clock,
                               outcome |-> Returned(runBootstrap(embeddedCases, clock)) ])
    /\ UNCHANGED << embeddedCases, lodoOut, orderVars, cacheVars,
                    resolveVars, scoreVars, mapVars, simVars,
                    engineVars >>

NextCalib == RunLODO \/ RunBootstrap

SpecCalib == InitCalib /\ [][NextCalib]_vars

(***************************************************************************)
(* The loop bodies of runBootstrap and runLODO run in any order: a repeat  *)
(* is the body of runBootstrap's loop, with the generator runBootstrap     *)
(* created before the loop, and a fold is the body of runLODO's loop.      *)
(* The data are three cases, one in each domain.                           *)
(***************************************************************************)
OrderDatasets ==
    { d \in Datasets : /\ Len(d) = 3
                       /\ d[1].domain = "satisfaction"
                       /\ d[2].domain = "likelihood"
                       /\ d[3].domain = "agreement" }

InitAnyOrder ==
    /\ EngineIdle
    /\ embeddedCases \in OrderDatasets
    /\ sharedRng = Some(mulberry32(SEED))
    /\ repeatOut = [ i \in 0..(BOOTSTRAP_REPEATS - 1) |-> None ]
    /\ foldOut = [ d \in 1..Len(getDomains(embeddedCases)) |-> None ]
    /\ mappings = << >>
    /\ providerCalls = << >>
    /\ lodoOut = None
    /\ bootRuns = << >>
    /\ question = None
    /\ anchorSet = None
    /\ scoreIn = None
    /\ scoreOut = None
    /\ engine = None
    /\ anchorCache = << >>
    /\ mapOut = None
    /\ mapCalls = 0
    /\ simIn = None
    /\ simOut = None

\* the body of runBootstrap's loop, for repeat i
Repeat(i) ==
    /\ repeatOut[i] = None
    /\ \E pass \in { bootstrapRepeat(embeddedCases, sharedRng[1]) } :
          /\ repeatOut' = [ repeatOut EXCEPT ![i] = Some(pass) ]
          /\ sharedRng' = Some(pass.rng)
    /\ UNCHANGED << foldOut, calibVars, cacheVars,
                    resolveVars, scoreVars, mapVars, simVars,
                    engineVars >>

\* the body of runLODO's loop, for the d-th domain
Fold(d) ==
    /\ foldOut[d] = None
    /\ foldOut' = [ foldOut EXCEPT ![d] =
                    Some(lodoFold(embeddedCases, getDomains(embeddedCases)[d])) ]
    /\ UNCHANGED << sharedRng, repeatOut, calibVars, cacheVars,
                    resolveVars, scoreVars, mapVars, simVars,
                    engineVars >>

NextAnyOrder ==
    \/ \E i \in 0..(BOOTSTRAP_REPEATS - 1) : Repeat(i)
    \/ \E d \in 1..Len(getDomains(embeddedCases)) : Fold(d)

SpecAnyOrder == InitAnyOrder /\ [][NextAnyOrder]_vars

(***************************************************************************)
(* Specification of the mapping: an engine is constructed, mapToLikert is  *)
(* called on it with a question and a response text, one call after the    *)
(* other, all on the one embedding service of the process.                 *)
(***************************************************************************)
InitMap ==
    /\ EngineIdle
    /\ engine \in { Some(SSREngine(c)) : c \in Configs }
    /\ anchorCache = << >>
    /\ mapOut = None
    /\ mapCalls = 0
    /\ simIn = None
    /\ simOut = None
    /\ embeddedCases = << >>
    /\ lodoOut = None
    /\ bootRuns = << >>
    /\ sharedRng = None
    /\ repeatOut = << >>
    /\ foldOut = << >>
    /\ mappings = << >>
    /\ providerCalls = << >>
    /\ question = None
    /\ anchorSet = None
    /\ scoreIn = None
    /\ scoreOut = None

MapToLikert ==
    /\ mapCalls < MaxMapCalls
    /\ \E q \in MapQuestions, textResponse \in Responses :
          \E call \in { mapToLikert(anchorCache, Val(engine), textResponse, q) } :
              /\ anchorCache' = call.cache
              /\ mapOut' = Some([ question     |-> q,
                                  textResponse |-> textResponse,
                                  outcome      |-> Fulfilled(call.result) ])
    /\ mapCalls' = mapCalls + 1
    /\ UNCHANGED << engine, resolveVars, scoreVars, simVars, calibVars, orderVars, cacheVars,
                    engineVars >>

NextMap == MapToLikert

SpecMap == InitMap /\ [][NextMap]_vars

(***************************************************************************)
(* Specification of the anchor cache under concurrent mappings.  A panel   *)
(* simulation maps the answers of several personas at a time on the one    *)
(* service instance; a mapToLikert call advances from await to await:      *)
(* StartMapping runs it up to the cache lookup of                          *)
(* getOrComputeAnchorEmbeddings and, on a miss, the request to the         *)
(* provider; AnchorsEmbedded is the provider's answer and the store into   *)
(* the cache; FinishMapping embeds the response and scores it.  The        *)
(* provider answers every request.                                         *)
(***************************************************************************)
CacheQuestions ==
    [ type         : { "likert" },
      text         : { "What is your favourite colour?" },
      scaleMin     : { None },
      scaleMax     : { None },
      scaleAnchors : { None,
                       Some([low |-> "Very dissatisfied", high |-> "Very satisfied"]),
                       Some([low |-> "Cold",              high |-> "Hot"]),
                       Some([low |-> "Very cold",         high |-> "Extremely hot"]) } ]

\* resolveAnchors on the questions of the panel
ResolvedAnchors == [ q \in CacheQuestions |-> resolveAnchors(q) ]

\* a call that has not started
NotStarted ==
    [ pc |-> "idle", question |-> None, textResponse |-> None, cacheKey |-> None,
      anchorTexts |-> None, anchorVecs |-> None, outcome |-> None ]

InitCache ==
    /\ EngineIdle
    /\ engine = Some(SSREngine([ embeddingTemperature    |-> None,
                                 similarityNormalization |-> None ]))
    /\ anchorCache = << >>
    /\ mappings = [ c \in 1..MaxMapCalls |-> NotStarted ]
    /\ providerCalls = << >>
    /\ mapOut = None
    /\ mapCalls = 0
    /\ simIn = None
    /\ simOut = None
    /\ embeddedCases = << >>
    /\ lodoOut = None
    /\ bootRuns = << >>
    /\ sharedRng = None
    /\ repeatOut = << >>
    /\ foldOut = << >>
    /\ question = None
    /\ anchorSet = None
    /\ scoreIn = None
    /\ scoreOut = None

\* mapToLikert up to the first await of getOrComputeAnchorEmbeddings
StartMapping(c) ==
    /\ mappings[c].pc = "idle"
    /\ \E q \in CacheQuestions, textResponse \in Responses :
          \E set \in { ResolvedAnchors[q] } :
             \E key \in { cacheKey(set) } :
                IF key \in DOMAIN anchorCache
                THEN /\ mappings' = [ mappings EXCEPT ![c] =
                           [ pc           |-> "anchors",
                             question     |-> Some(q),
                             textResponse |-> Some(textResponse),
                             cacheKey     |-> Some(key),
                             anchorTexts  |-> Some(set.anchors),
                             anchorVecs   |-> Some(anchorCache[key]),
                             outcome      |-> None ] ]
                     /\ UNCHANGED providerCalls
                ELSE /\ mappings' = [ mappings EXCEPT ![c] =
                           [ pc           |-> "embedding",
                             question     |-> Some(q),
                             textResponse |-> Some(textResponse),
                             cacheKey     |-> Some(key),
                             anchorTexts  |-> Some(set.anchors),
                             anchorVecs   |-> None,
                             outcome      |-> None ] ]
                     /\ providerCalls' = Append(providerCalls, key)
    /\ UNCHANGED << engine, anchorCache, mapOut, mapCalls,
                    resolveVars, scoreVars, simVars, calibVars, orderVars,
                    engineVars >>

\* the provider's answer: anchorCache.set(cacheKey, embeddings)
AnchorsEmbedded(c) ==
    /\ mappings[c].pc = "embedding"
    /\ \E embeddings \in { embed(mappings[c].anchorTexts[1]) } :
          /\ anchorCache' = (mappings[c].cacheKey[1] :> embeddings) @@ anchorCache
          /\ mappings' = [ mappings EXCEPT ![c].pc = "anchors",
                                           ![c].anchorVecs = Some(embeddings) ]
    /\ UNCHANGED << engine, providerCalls, mapOut, mapCalls,
                    resolveVars, scoreVars, simVars, calibVars, orderVars,
                    engineVars >>

\* the rest of mapResponseToScale: the response is embedded and scored
FinishMapping(c) ==
    /\ mappings[c].pc = "anchors"
    /\ mappings' = [ mappings EXCEPT
          ![c].pc = "done",
          ![c].outcome = Some(Fulfilled(
              scoreResponse(embed(<< mappings[c].textResponse[1] >>)[1],
                            mappings[c].anchorVecs[1],
                            mapToLikertScaleMin(mappings[c].question[1]),
                            mapToLikertScaleMax(mappings[c].question[1]),
                            engine[1].embeddingTemperature,
                            engine[1].similarityNormalization))) ]
    /\ UNCHANGED << engine, anchorCache, providerCalls, mapOut, mapCalls,
                    resolveVars, scoreVars, simVars, calibVars, orderVars,
                    engineVars >>

NextCache ==
    \E c \in 1..MaxMapCalls :
       \/ StartMapping(c)
       \/ AnchorsEmbedded(c)
       \/ FinishMapping(c)

SpecCache == InitCache /\ [][NextCache]_vars

(***************************************************************************)
(* Specification of the request limiter: the personas in flight call       *)
(* callWithRetry again and again on the one engine while time passes.  A   *)
(* call runs without interruption from one await to the next.              *)
(***************************************************************************)
InitRate ==
    /\ CoreIdle
    /\ GenerateIdle
    /\ LikertIdle
    /\ PersonaIdle
    /\ PanelIdle
    /\ FetchIdle
    /\ now = 0
    /\ requestCount = 0
    /\ lastResetTime = 0
    /\ callers = [ c \in 1..PARALLEL_PERSONAS |-> Idle ]
    /\ recentPasses = << >>

\* `await this.checkRateLimit()` of caller c in its attempt, entered with
\* the counter at count
Admit(c, attempt, count) ==
    \E r \in { checkRateLimit(count, lastResetTime, now) } :
       /\ requestCount' = r.requestCount
       /\ lastResetTime' = r.lastResetTime
       /\ IF r.waitTime = None
          THEN /\ callers' = [ callers EXCEPT ![c] =
                     [ pc |-> "calling", attempt |-> attempt, due |-> 0 ] ]
               /\ recentPasses' = Passed(recentPasses, now)
          ELSE /\ callers' = [ callers EXCEPT ![c] =
                     [ pc |-> "limited", attempt |-> attempt,
                       due |-> now + r.waitTime[1] ] ]
               /\ UNCHANGED recentPasses

\* a persona calls callWithRetry(fn)
CallWithRetry(c) ==
    /\ callers[c].pc = "idle"
    /\ Admit(c, 0, requestCount)
    /\ UNCHANGED << now, exceptRate >>

\* the delay of checkRateLimit is over: the counter is reset and counts
\* this request
WaitOver(c) ==
    /\ callers[c].pc = "limited"
    /\ now >= callers[c].due
    /\ requestCount' = 1
    /\ lastResetTime' = now
    /\ callers' = [ callers EXCEPT ![c].pc = "calling", ![c].due = 0 ]
    /\ recentPasses' = Passed(recentPasses, now)
    /\ UNCHANGED << now, exceptRate >>

\* fn() resolves: callWithRetry returns
Returns(c) ==
    /\ callers[c].pc = "calling"
    /\ callers' = [ callers EXCEPT ![c] = Idle ]
    /\ UNCHANGED << now, requestCount, lastResetTime, recentPasses, exceptRate >>

\* fn() throws: a rate-limit error is retried after a backoff while attempts
\* remain, any other error is thrown on
Throws(c) ==
    /\ callers[c].pc = "calling"
    /\ \E isRateLimit \in BOOLEAN :
          IF isRateLimit /\ callers[c].attempt < maxRetries
          THEN callers' = [ callers EXCEPT
                  ![c].pc  = "backoff",
                  ![c].due = now + (2 ^ callers[c].attempt) * 5000 ]
          ELSE callers' = [ callers EXCEPT ![c] = Idle ]
    /\ UNCHANGED << now, requestCount, lastResetTime, recentPasses, exceptRate >>

\* the backoff is over: the counter is reset and the next attempt begins
BackoffOver(c) ==
    /\ callers[c].pc = "backoff"
    /\ now >= callers[c].due
    /\ Admit(c, callers[c].attempt + 1, 0)
    /\ UNCHANGED << now, exceptRate >>

Tick ==
    /\ now < MaxNow
    /\ now' = now + TickMs
    /\ UNCHANGED << requestCount, lastResetTime, callers, recentPasses,
                    exceptRate >>

NextRate ==
    \/ \E c \in 1..PARALLEL_PERSONAS :
          \/ CallWithRetry(c)
          \/ WaitOver(c)
          \/ Returns(c)
          \/ Throws(c)
          \/ BackoffOver(c)
    \/ Tick

SpecRate == InitRate /\ [][NextRate]_vars

(***************************************************************************)
(* VoyageEmbeddingService.embed and fetchWithRetry: the texts are sent in  *)
(* batches of MAX_BATCH_SIZE, one fetchWithRetry call per batch.  The      *)
(* provider answers a request with a status, or the request fails before   *)
(* any answer.                                                             *)
(***************************************************************************)
\* the size of a batch (128 in the service)
MAX_BATCH_SIZE == 2

MaxTexts == 5

InputTypes == { "document", "query" }

\* the HTTP statuses the provider answers with
Statuses == { 200, 429, 500 }

\* how fetch settles: with a response of a status, whose body parses as
\* JSON or does not, or with a rejection
FetchResults ==
    [ settled : { "response" }, status : Statuses, json : BOOLEAN ]
       \cup { [ settled |-> "rejected", status |-> 0, json |-> FALSE ] }

Rejected(e) == [ status |-> "rejected", error |-> e ]

Event(kind, value) == [ kind |-> kind, value |-> value ]

fetchWithRetryStep_retryAnyError(status, attempt, retries) ==
    IF status = 200 THEN [ do |-> "return", waitMs |-> 0 ]
    ELSE IF attempt < retries
         THEN [ do |-> "wait", waitMs |-> 22000 * (2 ^ attempt) ]
         ELSE [ do |-> "throw", waitMs |-> 0 ]

\* what the loop of fetchWithRetry does with the response to its attempt
fetchWithRetryStep(status, attempt, retries) ==
    IF status = 200 THEN [ do |-> "return", waitMs |-> 0 ]
    ELSE IF status = 429 /\ attempt < retries
         THEN [ do |-> "wait", waitMs |-> 22000 * (2 ^ attempt) ]
         ELSE [ do |-> "throw", waitMs |-> 0 ]

InitFetch ==
    /\ CoreIdle
    /\ GenerateIdle
    /\ LikertIdle
    /\ PersonaIdle
    /\ PanelIdle
    /\ RateIdle
    /\ fetching = None
    /\ fetchLog = << >>
    /\ embedOut = None

\* embed(texts, inputType) is called with n texts: no text gives [] at once,
\* otherwise the first batch is sent
Embed(n, inputType) ==
    /\ fetching = None
    /\ embedOut = None
    /\ IF n = 0
       THEN /\ embedOut' = Fulfilled(0)
            /\ UNCHANGED << fetching, fetchLog >>
       ELSE /\ fetching' = Some([ texts     |-> n,
                                  inputType |-> inputType,
                                  i         |-> 0,
                                  embedded  |-> 0,
                                  retries   |-> 3,
                                  attempt   |-> 0,
                                  pc        |-> "fetching" ])
            /\ fetchLog' = << Event("request", 0) >>
            /\ UNCHANGED embedOut
    /\ UNCHANGED exceptFetch

\* the batch of call f is embedded: embed goes on to the next batch or
\* returns all the vectors
BatchDone(f) ==
    LET left == f.texts - f.i
        size == IF left < MAX_BATCH_SIZE THEN left ELSE MAX_BATCH_SIZE
        next == f.i + MAX_BATCH_SIZE
    IN  IF next < f.texts
        THEN /\ fetching' = Some([ f EXCEPT !.i = next,
                                            !.embedded = f.embedded + size,
                                            !.attempt = 0 ])
             /\ fetchLog' = << Event("request", 0) >>
             /\ UNCHANGED embedOut
        ELSE /\ fetching' = Some([ f EXCEPT !.embedded = f.embedded + size,
                                            !.pc = "done" ])
             /\ embedOut' = Fulfilled(f.embedded + size)
             /\ UNCHANGED fetchLog

\* the call ends with an error, which embed lets through
Fails(f, e, log) ==
    /\ fetching' = Some([ f EXCEPT !.pc = "done" ])
    /\ embedOut' = Rejected(e)
    /\ fetchLog' = log

\* the fetch of the current attempt settles
Respond(r) ==
    /\ IsSome(fetching)
    /\ Val(fetching).pc = "fetching"
    /\ \E f \in { Val(fetching) } :
          IF r.settled = "rejected"
          THEN Fails(f, "fetch failed", fetchLog)
          ELSE \E step \in { fetchWithRetryStep(r.status, f.attempt, f.retries) } :
                  \E log \in { Append(fetchLog, Event("response", r.status)) } :
                     IF step.do = "return"
                     THEN IF r.json
                          THEN BatchDone(f)
                          ELSE Fails(f, "SyntaxError", log)
                     ELSE IF step.do = "wait"
                     THEN /\ fetching' = Some([ f EXCEPT !.pc = "waiting" ])
                          /\ fetchLog' = Append(log, Event("wait", step.waitMs))
                          /\ UNCHANGED embedOut
                     ELSE Fails(f, "Voyage API error", log)
    /\ UNCHANGED exceptFetch

\* the wait after a 429 is over: the next attempt sends its request
WaitElapsed ==
    /\ IsSome(fetching)
    /\ Val(fetching).pc = "waiting"
    /\ \E f \in { Val(fetching) } :
          IF f.attempt + 1 <= f.retries
          THEN /\ fetching' = Some([ f EXCEPT !.attempt = f.attempt + 1,
                                              !.pc = "fetching" ])
               /\ fetchLog' = Append(fetchLog, Event("request", f.attempt + 1))
               /\ UNCHANGED embedOut
          ELSE Fails(f, "Voyage API: max retries exceeded", fetchLog)
    /\ UNCHANGED exceptFetch

NextFetch ==
    \/ \E n \in 0..MaxTexts, inputType \in InputTypes : Embed(n, inputType)
    \/ \E r \in FetchResults : Respond(r)
    \/ WaitElapsed

SpecFetch == InitFetch /\ [][NextFetch]_vars

\* every fetch settles and every timer fires
SpecFetchFair ==
    /\ SpecFetch
    /\ WF_vars(\E r \in FetchResults : Respond(r))
    /\ WF_vars(WaitElapsed)

(***************************************************************************)
(* SSREngine.simulatePanel: the personas are simulated in batches of       *)
(* PARALLEL_PERSONAS.  Personas are numbered from 1 (globalIndex + 1).     *)
(* simulatePersona, onProgress and shouldCancel are the caller's and the   *)
(* provider's: each of them resolves or rejects.                           *)
(***************************************************************************)
MaxPersonas == PARALLEL_PERSONAS + 2

\* the ids of the questions the panel is asked
PanelQuestionIds == << "q1", "q2" >>

\* what simulatePersona resolves with for persona g
simulationResult(g) ==
    [ personaId     |-> g,
      mappingMethod |-> "embedding-v1",
      responses     |-> [ k \in 1..Len(PanelQuestionIds) |->
                            [ questionId |-> PanelQuestionIds[k],
                              skipped    |-> FALSE ] ] ]

\* the result the catch block builds for persona g
fallbackResult(g) ==
    [ personaId     |-> g,
      mappingMethod |-> "error-fallback",
      responses     |-> [ k \in 1..Len(PanelQuestionIds) |->
                            [ questionId |-> PanelQuestionIds[k],
                              skipped    |-> TRUE ] ] ]

totalBatches(total) == (total + PARALLEL_PERSONAS - 1) \div PARALLEL_PERSONAS

batchStart(batchIndex) == batchIndex * PARALLEL_PERSONAS

batchEnd_all(start, total) == total

batchEnd(start, total) ==
    IF start + PARALLEL_PERSONAS < total THEN start + PARALLEL_PERSONAS
    ELSE total

\* the personas of a batch
BatchPersonas(batchIndex, total) ==
    (batchStart(batchIndex) + 1)..batchEnd(batchStart(batchIndex), total)

filterDefined_newest(rs) ==
    IF \E k \in 1..Len(rs) : rs[k] # None
    THEN << Val(rs[CHOOSE k \in 1..Len(rs) :
                     /\ rs[k] # None
                     /\ \A j \in (k + 1)..Len(rs) : rs[j] = None]) >>
    ELSE << >>

\* results.filter(r => r !== undefined)
filterDefined(rs) ==
    LET kept == SelectSeq(rs, LAMBDA r : r # None)
    IN  [ k \in 1..Len(kept) |-> Val(kept[k]) ]

InitPanel ==
    /\ CoreIdle
    /\ GenerateIdle
    /\ LikertIdle
    /\ PersonaIdle
    /\ RateIdle
    /\ FetchIdle
    /\ panel = None
    /\ personaRuns = << >>
    /\ panelResults = << >>
    /\ completedCount = 0
    /\ progressLog = << >>
    /\ polls = 0
    /\ panelOut = None

\* the return after the loop
ReturnResults(p, rs) ==
    /\ panel' = Some([ p EXCEPT !.pc = "returned" ])
    /\ panelOut' = Fulfilled([ results   |-> filterDefined(rs),
                               cancelled |-> FALSE ])
    /\ UNCHANGED polls

\* the batch is mapped to its promises: every persona of it enters
\* simulatePersona, and simulatePanel awaits Promise.all
StartBatch(p) ==
    /\ panel' = Some([ p EXCEPT !.pc = "batch" ])
    /\ personaRuns' = [ g \in 1..p.total |->
                          IF g \in BatchPersonas(p.batchIndex, p.total)
                          THEN [ pc |-> "simulating", simulated |-> None ]
                          ELSE IF g \in DOMAIN personaRuns THEN personaRuns[g]
                          ELSE [ pc |-> "pending", simulated |-> None ] ]
    /\ UNCHANGED << polls, panelOut >>

\* the head of the loop with the panel at p and the results array rs: the
\* loop is left, shouldCancel is asked, or the batch is started
LoopHead(p, rs) ==
    IF p.batchIndex < totalBatches(p.total)
    THEN IF p.hasCancel
         THEN /\ panel' = Some([ p EXCEPT !.pc = "polling" ])
              /\ personaRuns' = [ g \in 1..p.total |->
                                    IF g \in DOMAIN personaRuns
                                    THEN personaRuns[g]
                                    ELSE [ pc |-> "pending", simulated |-> None ] ]
              /\ polls' = polls + 1
              /\ UNCHANGED panelOut
         ELSE StartBatch(p)
    ELSE /\ ReturnResults(p, rs)
         /\ UNCHANGED personaRuns

\* simulatePanel is called for total personas, with or without the callbacks
SimulatePanel(total, hasProgress, hasCancel) ==
    /\ panel = None
    /\ panelResults' = [ g \in 1..total |-> None ]
    /\ LoopHead([ total       |-> total,
                  hasProgress |-> hasProgress,
                  hasCancel   |-> hasCancel,
                  batchIndex  |-> 0,
                  pc          |-> "called" ],
                [ g \in 1..total |-> None ])
    /\ UNCHANGED << completedCount, progressLog, exceptPanel >>

\* shouldCancel resolves: with true simulatePanel returns the results so
\* far, with false the batch is started
PollResolves(cancel) ==
    /\ IsSome(panel)
    /\ Val(panel).pc = "polling"
    /\ IF cancel
       THEN /\ panel' = Some([ Val(panel) EXCEPT !.pc = "returned" ])
            /\ panelOut' = Fulfilled([ results   |-> filterDefined(panelResults),
                                       cancelled |-> TRUE ])
            /\ UNCHANGED << personaRuns, polls >>
       ELSE StartBatch(Val(panel))
    /\ UNCHANGED << panelResults, completedCount, progressLog, exceptPanel >>

\* shouldCancel rejects: simulatePanel rejects with its error
PollRejects ==
    /\ IsSome(panel)
    /\ Val(panel).pc = "polling"
    /\ panel' = Some([ Val(panel) EXCEPT !.pc = "rejected" ])
    /\ panelOut' = Rejected("shouldCancel")
    /\ UNCHANGED << personaRuns, panelResults, completedCount, progressLog,
                    polls, exceptPanel >>

\* a result is stored for persona g and counted, and the progress is
\* reported when there is a callback, from the try block or from the catch
Complete(g, result, simulated, reporting) ==
    /\ panelResults' = [ panelResults EXCEPT ![g] = Some(result) ]
    /\ completedCount' = completedCount + 1
    /\ IF Val(panel).hasProgress
       THEN /\ progressLog' = Append(progressLog, completedCount + 1)
            /\ personaRuns' = [ personaRuns EXCEPT
                                  ![g] = [ pc |-> reporting,
                                           simulated |-> simulated ] ]
       ELSE /\ personaRuns' = [ personaRuns EXCEPT
                                  ![g] = [ pc |-> "done",
                                           simulated |-> simulated ] ]
            /\ UNCHANGED progressLog

\* simulatePersona resolves for persona g
PersonaResolves(g) ==
    /\ IsSome(panel)
    /\ g \in 1..Val(panel).total
    /\ personaRuns[g].pc = "simulating"
    /\ Complete(g, simulationResult(g), Some("resolved"), "reporting")
    /\ UNCHANGED << panel, polls, panelOut, exceptPanel >>

\* simulatePersona rejects for persona g: the catch block
PersonaRejects(g) ==
    /\ IsSome(panel)
    /\ g \in 1..Val(panel).total
    /\ personaRuns[g].pc = "simulating"
    /\ Complete(g, fallbackResult(g), Some("rejected"), "reportingFallback")
    /\ UNCHANGED << panel, polls, panelOut, exceptPanel >>

\* onProgress resolves for persona g: its promise is fulfilled
ProgressResolves(g) ==
    /\ IsSome(panel)
    /\ g \in 1..Val(panel).total
    /\ personaRuns[g].pc \in { "reporting", "reportingFallback" }
    /\ personaRuns' = [ personaRuns EXCEPT ![g].pc = "done" ]
    /\ UNCHANGED << panel, panelResults, completedCount, progressLog, polls,
                    panelOut, exceptPanel >>

\* onProgress rejects for persona g: in the try block the catch block takes
\* over, in the catch block the persona's promise is rejected
ProgressRejects(g) ==
    /\ IsSome(panel)
    /\ g \in 1..Val(panel).total
    /\ \/ /\ personaRuns[g].pc = "reporting"
          /\ Complete(g, fallbackResult(g), personaRuns[g].simulated,
                      "reportingFallback")
       \/ /\ personaRuns[g].pc = "reportingFallback"
          /\ personaRuns' = [ personaRuns EXCEPT ![g].pc = "rejected" ]
          /\ UNCHANGED << panelResults, completedCount, progressLog >>
    /\ UNCHANGED << panel, polls, panelOut, exceptPanel >>

\* Promise.all of the batch is fulfilled: the delay between batches begins,
\* or after the last batch the loop is left
BatchFulfilled ==
    /\ IsSome(panel)
    /\ Val(panel).pc = "batch"
    /\ \E p \in { Val(panel) } :
          /\ \A g \in BatchPersonas(p.batchIndex, p.total) :
                personaRuns[g].pc = "done"
          /\ IF p.batchIndex < totalBatches(p.total) - 1
             THEN /\ panel' = Some([ p EXCEPT !.pc = "delay" ])
                  /\ UNCHANGED << personaRuns, polls, panelOut >>
             ELSE LoopHead([ p EXCEPT !.batchIndex = p.batchIndex + 1 ],
                           panelResults)
    /\ UNCHANGED << panelResults, completedCount, progressLog, exceptPanel >>

\* Promise.all of the batch is rejected: simulatePanel rejects with the
\* error, whatever the other personas of the batch are doing
BatchRejected ==
    /\ IsSome(panel)
    /\ Val(panel).pc = "batch"
    /\ \E g \in BatchPersonas(Val(panel).batchIndex, Val(panel).total) :
          personaRuns[g].pc = "rejected"
    /\ panel' = Some([ Val(panel) EXCEPT !.pc = "rejected" ])
    /\ panelOut' = Rejected("onProgress")
    /\ UNCHANGED << personaRuns, panelResults, completedCount, progressLog,
                    polls, exceptPanel >>

\* the delay between two batches is over
DelayOver ==
    /\ IsSome(panel)
    /\ Val(panel).pc = "delay"
    /\ LoopHead([ Val(panel) EXCEPT !.batchIndex = Val(panel).batchIndex + 1 ],
                panelResults)
    /\ UNCHANGED << panelResults, completedCount, progressLog, exceptPanel >>

NextPanel ==
    \/ \E total \in 0..MaxPersonas, hasProgress \in BOOLEAN, hasCancel \in BOOLEAN :
          SimulatePanel(total, hasProgress, hasCancel)
    \/ \E cancel \in BOOLEAN : PollResolves(cancel)
    \/ PollRejects
    \/ \E g \in 1..MaxPersonas :
          \/ PersonaResolves(g)
          \/ PersonaRejects(g)
          \/ ProgressResolves(g)
          \/ ProgressRejects(g)
    \/ BatchFulfilled
    \/ BatchRejected
    \/ DelayOver

SpecPanel == InitPanel /\ [][NextPanel]_vars

(***************************************************************************)
(* SSREngine.simulatePersona and evaluateCondition.  A condition value is  *)
(* a number or a string; Number(value) is None where JavaScript gives NaN. *)
(* The strings drawn are words and digit strings, for which ParseNumber is *)
(* what Number does.                                                       *)
(***************************************************************************)
MaxQuestions == 3

NumberValue(n) == [ type |-> "number", n |-> n, s |-> "" ]

StringValue(s) == [ type |-> "string", n |-> 0, s |-> s ]

DigitValue ==
    ("0" :> 0) @@ ("1" :> 1) @@ ("2" :> 2) @@ ("3" :> 3) @@ ("4" :> 4) @@
    ("5" :> 5) @@ ("6" :> 6) @@ ("7" :> 7) @@ ("8" :> 8) @@ ("9" :> 9)

RECURSIVE DecimalValue(_, _)
DecimalValue(s, acc) ==
    IF Len(s) = 0 THEN acc
    ELSE DecimalValue(SubSeq(s, 2, Len(s)), 10 * acc + DigitValue[Char(s, 1)])

\* Number(s) of a string: 0 for a blank string, the value of a digit
\* string, NaN for a word
ParseNumber(s) ==
    IF Len(trim(s)) = 0 THEN Some(0)
    ELSE IF \A i \in 1..Len(trim(s)) : Char(trim(s), i) \in DOMAIN DigitValue
         THEN Some(DecimalValue(trim(s), 0))
         ELSE None

\* Number(value)
NumberOf(value) ==
    IF value.type = "number" THEN Some(value.n) ELSE ParseNumber(value.s)

\* String(value)
StringOf(value) ==
    IF value.type = "number" THEN ToString(value.n) ELSE value.s

\* the response a skipped question is recorded with
skippedResponse(q) ==
    [ questionId      |-> q.id,
      rating          |-> 0,
      explanation     |-> "",
      rawTextResponse |-> "",
      skipped         |-> TRUE ]

\* a ?.toLowerCase().includes(b.toLowerCase())
includesLower(text, value) ==
    includes(toLowerCase(text), toLowerCase(StringOf(value)))

evaluateCondition(response, condition) ==
    IF condition.operator = "equals"
    THEN IF condition.value.type = "number"
         THEN response.rating = condition.value.n
         ELSE \/ NumberOf(condition.value) = Some(response.rating)
              \/ includesLower(response.explanation, condition.value)
              \/ includesLower(response.rawTextResponse, condition.value)
    ELSE IF condition.operator = "notEquals"
    THEN IF condition.value.type = "number"
         THEN response.rating # condition.value.n
         ELSE /\ NumberOf(condition.value) # Some(response.rating)
              /\ ~includesLower(response.explanation, condition.value)
              /\ ~includesLower(response.rawTextResponse, condition.value)
    ELSE IF condition.operator = "greaterThan"
    THEN /\ IsSome(NumberOf(condition.value))
         /\ response.rating > Val(NumberOf(condition.value))
    ELSE IF condition.operator = "lessThan"
    THEN /\ IsSome(NumberOf(condition.value))
         /\ response.rating < Val(NumberOf(condition.value))
    ELSE IF condition.operator = "contains"
    THEN \/ includesLower(response.explanation, condition.value)
         \/ includesLower(response.rawTextResponse, condition.value)
    ELSE TRUE

\* answeredQuestions.set(id, response)
MapSet(map, id, response) ==
    [ k \in DOMAIN map \cup { id } |-> IF k = id THEN response ELSE map[k] ]

RECURSIVE simulatePersonaLoop_recordSkipped(_, _, _, _)
simulatePersonaLoop_recordSkipped(questions, k, responses, answered) ==
    IF k > Len(questions)
    THEN [ pc |-> "returned", k |-> k, responses |-> responses,
           answeredQuestions |-> answered ]
    ELSE IF /\ IsSome(questions[k].showIf)
            /\ \/ Val(questions[k].showIf).questionId \notin DOMAIN answered
               \/ ~evaluateCondition(answered[Val(questions[k].showIf).questionId],
                                     Val(questions[k].showIf))
    THEN simulatePersonaLoop_recordSkipped(questions, k + 1,
            Append(responses, skippedResponse(questions[k])),
            MapSet(answered, questions[k].id, skippedResponse(questions[k])))
    ELSE [ pc |-> "generating", k |-> k, responses |-> responses,
           answeredQuestions |-> answered ]

\* the loop over the questions from the k-th on, up to the next await: the
\* questions whose condition is not met are recorded as skipped, until a
\* question is handed to generateResponse or the questions are used up
RECURSIVE simulatePersonaLoop(_, _, _, _)
simulatePersonaLoop(questions, k, responses, answered) ==
    IF k > Len(questions)
    THEN [ pc |-> "returned", k |-> k, responses |-> responses,
           answeredQuestions |-> answered ]
    ELSE IF /\ IsSome(questions[k].showIf)
            /\ \/ Val(questions[k].showIf).questionId \notin DOMAIN answered
               \/ ~evaluateCondition(answered[Val(questions[k].showIf).questionId],
                                     Val(questions[k].showIf))
    THEN simulatePersonaLoop(questions, k + 1,
            Append(responses, skippedResponse(questions[k])), answered)
    ELSE [ pc |-> "generating", k |-> k, responses |-> responses,
           answeredQuestions |-> answered ]

QuestionId(k) == "q" \o ToString(k)

ConditionOperators ==
    { "equals", "notEquals", "greaterThan", "lessThan", "contains" }

ConditionValues == { NumberValue(1), StringValue("2"), StringValue("YES") }

\* the surveys of n questions: a question is unconditional or is shown on a
\* condition on one of the survey's questions, and the conditional questions
\* of a survey share the operator and the value
Surveys(n) ==
    { [ k \in 1..n |->
          [ id     |-> QuestionId(k),
            showIf |-> IF refs[k] = 0 THEN None
                       ELSE Some([ questionId |-> QuestionId(refs[k]),
                                   operator   |-> operator,
                                   value      |-> value ]) ] ] :
      refs \in [ 1..n -> 0..n ],
      operator \in ConditionOperators,
      value \in ConditionValues }

\* what generateResponse resolves with, the question's id apart
Answers ==
    { [ rating |-> 1, explanation |-> "Yes, I would.", rawTextResponse |-> "yes" ],
      [ rating |-> 2, explanation |-> "Not really.", rawTextResponse |-> "no" ],
      [ rating |-> 0, explanation |-> "I paid 2 dollars.", rawTextResponse |-> "" ] }

InitPersona ==
    /\ CoreIdle
    /\ GenerateIdle
    /\ LikertIdle
    /\ RateIdle
    /\ FetchIdle
    /\ PanelIdle
    /\ simulation = None
    /\ generationCalls = << >>
    /\ personaOut = None

\* simulatePersona goes on from the state the loop has reached: it awaits
\* generateResponse for the next question or returns the responses
Proceed(questions, reached) ==
    /\ simulation' = Some([ questions |-> questions,
                            k         |-> reached.k,
                            pc        |-> reached.pc,
                            responses |-> reached.responses,
                            answeredQuestions |-> reached.answeredQuestions ])
    /\ IF reached.pc = "generating"
       THEN /\ generationCalls' =
                  Append(generationCalls, questions[reached.k].id)
            /\ UNCHANGED personaOut
       ELSE /\ personaOut' = Fulfilled([ responses |-> reached.responses ])
            /\ UNCHANGED generationCalls

SimulatePersona(questions) ==
    /\ simulation = None
    /\ \E reached \in { simulatePersonaLoop(questions, 1, << >>, << >>) } :
          Proceed(questions, reached)
    /\ UNCHANGED exceptPersona

\* generateResponse resolves with an answer: it is pushed and recorded as
\* the answer to the question, and the loop goes on
GenerateResolves(answer) ==
    /\ IsSome(simulation)
    /\ Val(simulation).pc = "generating"
    /\ \E sim \in { Val(simulation) } :
          \E response \in { [ questionId      |-> sim.questions[sim.k].id,
                              rating          |-> answer.rating,
                              explanation     |-> answer.explanation,
                              rawTextResponse |-> answer.rawTextResponse,
                              skipped         |-> FALSE ] } :
             \E reached \in { simulatePersonaLoop(sim.questions, sim.k + 1,
                                 Append(sim.responses, response),
                                 MapSet(sim.answeredQuestions,
                                        sim.questions[sim.k].id, response)) } :
                Proceed(sim.questions, reached)
    /\ UNCHANGED exceptPersona

\* generateResponse rejects: so does simulatePersona
GenerateRejects ==
    /\ IsSome(simulation)
    /\ Val(simulation).pc = "generating"
    /\ simulation' = Some([ Val(simulation) EXCEPT !.pc = "rejected" ])
    /\ personaOut' = Rejected("generateResponse")
    /\ UNCHANGED << generationCalls, exceptPersona >>

NextPersona ==
    \/ /\ simulation = None
       /\ \E n \in 0..MaxQuestions : \E questions \in Surveys(n) :
             SimulatePersona(questions)
    \/ \E answer \in Answers : GenerateResolves(answer)
    \/ GenerateRejects

SpecPersona == InitPersona /\ [][NextPersona]_vars

(***************************************************************************)
(* SSREngine.mapToLikert with its fallbacks: the embedding path when the   *)
(* embedding service is there, mapToLikertViaLLM otherwise and when the    *)
(* embedding path throws.  Confidences and distribution entries are        *)
(* fixed-point values, ratings and scale bounds plain integers (NaN where  *)
(* JavaScript computes NaN).  The model's reply to the mapping prompt is   *)
(* given by what the code makes of it: whether the pattern /\{[\s\S]*\}/   *)
(* matches, whether JSON.parse takes the match, and the rating and the     *)
(* confidence of the parsed object.                                        *)
(***************************************************************************)
Thrown(e) == [ status |-> "thrown", error |-> e ]

\* generateDistribution: new Array(size) throws a RangeError for a negative
\* size
generateDistribution(rating, scaleMin, scaleMax, confidence) ==
    IF scaleMax - scaleMin + 1 < 0 THEN Thrown("RangeError")
    ELSE Bind([ i \in 1..(scaleMax - scaleMin + 1) |->
                  IF rating = NaN THEN NaN
                  ELSE MathExp(0 - (IF i - 1 < rating - scaleMin
                                    THEN rating - scaleMin - (i - 1)
                                    ELSE (i - 1) - (rating - scaleMin))
                                   * (2 * SCALE + 3 * confidence)) ],
              LAMBDA distribution :
         Bind(Reduce(distribution, 0), LAMBDA sum :
         Returned([ i \in 1..Len(distribution) |-> FxDiv(distribution[i], sum) ])))

\* Math.round((scaleMin + scaleMax) / 2)
midRating(scaleMin, scaleMax) == (scaleMin + scaleMax + 1) \div 2

\* the closing statements of mapToLikertViaLLM: the middle rating
middleRating(scaleMin, scaleMax) ==
    Bind(generateDistribution(midRating(scaleMin, scaleMax), scaleMin, scaleMax,
                              SCALE \div 2),
         LAMBDA generated :
            IF generated.status = "thrown" THEN Rejected(generated.error)
            ELSE Fulfilled([ rating        |-> midRating(scaleMin, scaleMax),
                             distribution  |-> generated.value,
                             confidence    |-> SCALE \div 2,
                             mappingMethod |-> "llm-fallback" ]))

\* the try block of mapToLikertViaLLM from the reply on: None when the
\* pattern does not match or the block throws
ratingFromReply(reply, scaleMin, scaleMax) ==
    IF ~reply.matches \/ ~reply.parses THEN None
    ELSE Bind(IF reply.rating = None THEN NaN
              ELSE Min2(Max2(Val(reply.rating), scaleMin), scaleMax),
              LAMBDA rating :
         Bind(Min2(Max2(OrElse(reply.confidence, (7 * SCALE) \div 10), 0), SCALE),
              LAMBDA confidence :
         Bind(generateDistribution(rating, scaleMin, scaleMax, confidence),
              LAMBDA generated :
            IF generated.status = "thrown" THEN None
            ELSE Some([ rating        |-> rating,
                        distribution  |-> generated.value,
                        confidence    |-> confidence,
                        mappingMethod |-> "llm-fallback" ]))))

\* mapToLikertViaLLM once callWithRetry has resolved with the reply
mapToLikertViaLLM(reply, scaleMin, scaleMax) ==
    Bind(ratingFromReply(reply, scaleMin, scaleMax), LAMBDA parsed :
       IF IsSome(parsed) THEN Fulfilled(Val(parsed))
       ELSE middleRating(scaleMin, scaleMax))

\* the questions mapped: scales with the bounds stated or left out, in
\* order or not
LikertQuestions ==
    [ type         : { "likert", "nps" },
      text         : { "What is your overall impression?" },
      scaleMin     : { None, Some(0), Some(1), Some(3) },
      scaleMax     : { None, Some(1), Some(4) },
      scaleAnchors : { None } ]

\* what the code makes of the model's reply
LlmReplies ==
    [ matches    : BOOLEAN,
      parses     : BOOLEAN,
      rating     : { None, Some(2), Some(9) },
      confidence : { None, Some(0), Some((9 * SCALE) \div 10) } ]

\* the engine of the calls: the default embedding settings
DefaultEngine ==
    SSREngine([ embeddingTemperature |-> None, similarityNormalization |-> None ])

InitLikert ==
    /\ CoreIdle
    /\ GenerateIdle
    /\ RateIdle
    /\ FetchIdle
    /\ PanelIdle
    /\ PersonaIdle
    /\ likertCall = None
    /\ likertOut = None

\* mapToLikert is called: with the embedding service there it awaits
\* mapResponseToScale, else it awaits the call of mapToLikertViaLLM
CallMapToLikert(q, textResponse, available) ==
    /\ likertCall = None
    /\ likertCall' = Some([ question     |-> q,
                            textResponse |-> textResponse,
                            scaleMin     |-> mapToLikertScaleMin(q),
                            scaleMax     |-> mapToLikertScaleMax(q),
                            available    |-> available,
                            embedding    |-> "none",
                            llm          |-> "none",
                            reply        |-> None,
                            pc           |-> IF available THEN "embedding"
                                             ELSE "llm" ])
    /\ UNCHANGED << likertOut, exceptLikert >>

\* mapResponseToScale resolves: mapToLikert returns its result
EmbeddingResolves ==
    /\ IsSome(likertCall)
    /\ Val(likertCall).pc = "embedding"
    /\ \E call \in { Val(likertCall) } :
          /\ likertCall' = Some([ call EXCEPT !.pc = "done",
                                              !.embedding = "resolved" ])
          /\ likertOut' = Fulfilled(mapToLikert(<< >>, DefaultEngine,
                                                call.textResponse,
                                                call.question).result)
    /\ UNCHANGED exceptLikert

\* the embedding path throws: the error is logged and mapToLikertViaLLM is
\* called
EmbeddingRejects ==
    /\ IsSome(likertCall)
    /\ Val(likertCall).pc = "embedding"
    /\ likertCall' = Some([ Val(likertCall) EXCEPT !.pc = "llm",
                                                   !.embedding = "rejected" ])
    /\ UNCHANGED << likertOut, exceptLikert >>

\* callWithRetry resolves with the model's reply
LlmResolves(reply) ==
    /\ IsSome(likertCall)
    /\ Val(likertCall).pc = "llm"
    /\ \E call \in { Val(likertCall) } :
          /\ likertCall' = Some([ call EXCEPT !.pc = "done",
                                              !.llm = "resolved",
                                              !.reply = Some(reply) ])
          /\ likertOut' = mapToLikertViaLLM(reply, call.scaleMin, call.scaleMax)
    /\ UNCHANGED exceptLikert

\* callWithRetry rejects: the error is logged and the middle rating returned
LlmRejects ==
    /\ IsSome(likertCall)
    /\ Val(likertCall).pc = "llm"
    /\ \E call \in { Val(likertCall) } :
          /\ likertCall' = Some([ call EXCEPT !.pc = "done", !.llm = "rejected" ])
          /\ likertOut' = middleRating(call.scaleMin, call.scaleMax)
    /\ UNCHANGED exceptLikert

NextLikert ==
    \/ /\ likertCall = None
       /\ \E q \in LikertQuestions, textResponse \in Responses, available \in BOOLEAN :
             CallMapToLikert(q, textResponse, available)
    \/ EmbeddingResolves
    \/ EmbeddingRejects
    \/ \E reply \in LlmReplies : LlmResolves(reply)
    \/ LlmRejects

SpecLikert == InitLikert /\ [][NextLikert]_vars

(***************************************************************************)
(* phase1Generate of the self-rating experiment: one text is generated per *)
(* test case and persona, with up to MAX_RETRIES attempts each.  The model *)
(* takes the first MaxCases test cases and the first MaxExperimentPersonas *)
(* personas (69 and 5 in the script).                                      *)
(***************************************************************************)
MAX_RETRIES == 3

MaxExperimentPersonas == 2

PERSONAS == << "detailed_professional", "blunt_retiree", "hedging_student",
               "busy_parent", "casual_young" >>

ExperimentPersonas == SubSeq(PERSONAS, 1, MaxExperimentPersonas)

ExperimentCases == [ c \in 1..MaxCases |-> "TC-" \o ToString(c) ]

\* the text of the reply's text block ("" without one), before trim()
ReplyTexts == { "I really liked it overall.", "  Fine.    ", "" }

\* the entry pushed for case c and persona p
GeneratedText(c, p, text) ==
    [ testCaseLabel |-> ExperimentCases[c],
      personaId     |-> ExperimentPersonas[p],
      generatedText |-> text ]

InitGenerate ==
    /\ CoreIdle
    /\ RateIdle
    /\ FetchIdle
    /\ PanelIdle
    /\ PersonaIdle
    /\ LikertIdle
    /\ generating = None
    /\ generatedTexts = << >>
    /\ checkpoint = None
    /\ generateOut = None

\* the call, at case c and persona p, sends the request of an attempt
AtAttempt(c, p, attempt) ==
    [ c |-> c, p |-> p, attempt |-> attempt, pc |-> "creating" ]

\* phase1Generate is called: a checkpoint is loaded and returned, otherwise
\* the first request is sent
Phase1Generate ==
    /\ IF IsSome(generating) THEN Val(generating).pc = "returned" ELSE TRUE
    /\ IF IsSome(checkpoint)
       THEN /\ generating' = Some([ c |-> 0, p |-> 0, attempt |-> 0,
                                    pc |-> "returned" ])
            /\ generateOut' = Fulfilled(Val(checkpoint))
            /\ UNCHANGED << generatedTexts, checkpoint >>
       ELSE /\ generating' = Some(AtAttempt(1, 1, 0))
            /\ generatedTexts' = << >>
            /\ UNCHANGED << checkpoint, generateOut >>
    /\ UNCHANGED exceptGenerate

\* messages.create resolves: a text of at least 10 characters is pushed and
\* the attempts end, a shorter one is retried after a delay
CreateResolves(text) ==
    /\ IsSome(generating)
    /\ Val(generating).pc = "creating"
    /\ \E g \in { Val(generating) } :
          IF Len(trim(text)) < 10
          THEN /\ generating' = Some([ g EXCEPT !.pc = "retryDelay" ])
               /\ UNCHANGED generatedTexts
          ELSE /\ generating' = Some([ g EXCEPT !.pc = "pairDelay" ])
               /\ generatedTexts' =
                     Append(generatedTexts, GeneratedText(g.c, g.p, trim(text)))
    /\ UNCHANGED << checkpoint, generateOut, exceptGenerate >>

\* messages.create rejects: the error is logged and a delay begins
CreateRejects ==
    /\ IsSome(generating)
    /\ Val(generating).pc = "creating"
    /\ generating' = Some([ Val(generating) EXCEPT !.pc = "errorDelay" ])
    /\ UNCHANGED << generatedTexts, checkpoint, generateOut, exceptGenerate >>

\* the head of the attempt loop: the next attempt, or after the last the
\* delay between two pairs
NextAttempt(g) ==
    IF g.attempt + 1 < MAX_RETRIES
    THEN Some([ g EXCEPT !.attempt = g.attempt + 1, !.pc = "creating" ])
    ELSE Some([ g EXCEPT !.attempt = g.attempt + 1, !.pc = "pairDelay" ])

\* the delay after a short text is over: continue
RetryDelayOver ==
    /\ IsSome(generating)
    /\ Val(generating).pc = "retryDelay"
    /\ generating' = NextAttempt(Val(generating))
    /\ UNCHANGED << generatedTexts, checkpoint, generateOut, exceptGenerate >>

\* the delay after an error is over: after the last attempt the placeholder
\* is pushed
ErrorDelayOver ==
    /\ IsSome(generating)
    /\ Val(generating).pc = "errorDelay"
    /\ \E g \in { Val(generating) } :
          /\ generating' = NextAttempt(g)
          /\ generatedTexts' =
                IF g.attempt = MAX_RETRIES - 1
                THEN Append(generatedTexts,
                            GeneratedText(g.c, g.p, "[GENERATION FAILED]"))
                ELSE generatedTexts
    /\ UNCHANGED << checkpoint, generateOut, exceptGenerate >>

\* the delay between two pairs is over: the next persona, the next test
\* case, or the checkpoint is saved and the results are returned
PairDelayOver ==
    /\ IsSome(generating)
    /\ Val(generating).pc = "pairDelay"
    /\ \E g \in { Val(generating) } :
          IF g.p < Len(ExperimentPersonas)
          THEN /\ generating' = Some(AtAttempt(g.c, g.p + 1, 0))
               /\ UNCHANGED << checkpoint, generateOut >>
          ELSE IF g.c < Len(ExperimentCases)
          THEN /\ generating' = Some(AtAttempt(g.c + 1, 1, 0))
               /\ UNCHANGED << checkpoint, generateOut >>
          ELSE /\ generating' = Some([ g EXCEPT !.pc = "returned" ])
               /\ checkpoint' = Some(generatedTexts)
               /\ generateOut' = Fulfilled(generatedTexts)
    /\ UNCHANGED << generatedTexts, exceptGenerate >>

NextGenerate ==
    \/ Phase1Generate
    \/ \E text \in ReplyTexts : CreateResolves(text)
    \/ CreateRejects
    \/ RetryDelayOver
    \/ ErrorDelayOver
    \/ PairDelayOver

SpecGenerate == InitGenerate /\ [][NextGenerate]_vars

(***************************************************************************)
(* Properties of the resolver, checked under SpecResolve.                  *)
(***************************************************************************)
Resolved == IsSome(anchorSet)

R == Val(anchorSet)

\* The bounds of the scale definition itself: the given ones, or the
\* documented defaults (1..5, and 0..10 for the recommendation kind).
OwnMin == IF IsSome(question.scaleMin) THEN Val(question.scaleMin)
          ELSE IF question.type = "nps" THEN 0 ELSE 1

OwnMax == IF IsSome(question.scaleMax) THEN Val(question.scaleMax)
          ELSE IF question.type = "nps" THEN 10 ELSE 5

OwnSize == OwnMax - OwnMin + 1

HasLabels == IsSome(question.scaleAnchors)

LowNorm == trim(toLowerCase(Val(question.scaleAnchors).low))

HighNorm == trim(toLowerCase(Val(question.scaleAnchors).high))

TableKeys == { LABEL_TO_SEMANTIC[i].pattern : i \in 1..Len(LABEL_TO_SEMANTIC) }

\* the table entries whose key a normalized label equals or contains
EntriesNamed ==
    LET low  == LowNorm
        high == HighNorm
    IN  { i \in 1..Len(LABEL_TO_SEMANTIC) :
            \/ includes(low, LABEL_TO_SEMANTIC[i].pattern)
            \/ includes(high, LABEL_TO_SEMANTIC[i].pattern) }

\* The keyword rules of the text tier in their listed order: a rule matches
\* when the lowercased text contains one of `any` and every one of `all`.
KeywordRules ==
    << [family |-> "satisfaction",    any |-> {"satisfi"},                          all |-> {}],
       [family |-> "agreement",       any |-> {"agree", "disagree"},                all |-> {}],
       [family |-> "likelihood",      any |-> {"likely", "likelihood", "probability"}, all |-> {}],
       [family |-> "ease",            any |-> {"easy", "difficult", "ease"},        all |-> {}],
       [family |-> "importance",      any |-> {"important", "importance"},          all |-> {}],
       [family |-> "familiarity",     any |-> {"familiar"},                         all |-> {}],
       [family |-> "appeal",          any |-> {"appeal"},                           all |-> {}],
       [family |-> "value",           any |-> {"value"},                            all |-> {"money"}],
       [family |-> "trust",           any |-> {"trust"},                            all |-> {}],
       [family |-> "quality",         any |-> {"quality"},                          all |-> {}],
       [family |-> "uniqueness",      any |-> {"unique", "different"},              all |-> {}],
       [family |-> "relevance",       any |-> {"relevant", "relevance"},            all |-> {}],
       [family |-> "impression",      any |-> {"impression", "overall"},            all |-> {}],
       [family |-> "purchase_intent", any |-> {"purchase", "buy"},                  all |-> {}],
       [family |-> "nps",             any |-> {"recommend"},                        all |-> {}],
       [family |-> "frequency",       any |-> {"often", "frequently", "how often"}, all |-> {}] >>

RulesMatching ==
    LET lower == toLowerCase(question.text)
    IN  { k \in 1..Len(KeywordRules) :
            /\ \E w \in KeywordRules[k].any : includes(lower, w)
            /\ \A w \in KeywordRules[k].all : includes(lower, w) }

\* a family can serve a scale of n points: from a list of its own of that
\* length, or by resampling its 5-point list
Serves(family, n) ==
    /\ n >= 1
    /\ \/ Len(TEMPLATES[family].anchors5) = 5
       \/ \E f \in DOMAIN TEMPLATES[family] : Len(TEMPLATES[family][f]) = n

\* C1 as stated: for every scale definition with max > min the anchor list
\* has max - min + 1 entries, whichever tier produced it.
C1_LengthFromOwnBounds ==
    (Resolved /\ OwnMax > OwnMin) => Len(R.anchors) = OwnSize

\* C1, amended: for every scale definition with max > min that is not of the
\* recommendation kind, the anchor list has max - min + 1 entries and the
\* set carries those bounds, whichever tier produced it; for the
\* recommendation kind the list has 11 entries, one per point of the bounds
\* 0..10 the set carries, whatever the definition's own bounds are.
C1_AnchorCount ==
    (Resolved /\ OwnMax > OwnMin) =>
        /\ Len(R.anchors) = R.scaleMax - R.scaleMin + 1
        /\ IF question.type = "nps"
           THEN Len(R.anchors) = 11
           ELSE /\ Len(R.anchors) = OwnSize
                /\ R.scaleMin = OwnMin
                /\ R.scaleMax = OwnMax

\* a 9-point ease scale, resolved by resampling the 5-point list
C1_Witness ==
    /\ Resolved
    /\ question.type = "likert"
    /\ OwnMin = 2 /\ OwnMax = 10
    /\ R.semantic = "ease"
    /\ Len(R.anchors) = 9

\* C2: resolveAnchors is total: for every question (any kind, any bounds,
\* labels or none, any text) the call returns (ResolveAnchors has no guard
\* on the question, and no path of it raises) an anchor set that has at
\* least one anchor statement, each a non-empty text; when the kind is not
\* the recommendation kind, no labels are given and no keyword rule matches
\* the text, the set is of the agreement family.
C2_Total ==
    Resolved =>
        /\ Len(R.anchors) >= 1
        /\ \A i \in 1..Len(R.anchors) : Len(R.anchors[i]) > 0
        /\ R.semantic \in DOMAIN TEMPLATES \cup { "custom" }
        /\ (question.type # "nps" /\ ~HasLabels /\ RulesMatching = {}) =>
               R.semantic = "agreement"

\* a question no tier serves, with max < min: the default tier answers it
C2_Witness ==
    /\ Resolved
    /\ question.type = "likert"
    /\ ~HasLabels
    /\ RulesMatching = {}
    /\ OwnMax < OwnMin
    /\ R.semantic = "agreement"

\* C3: the tiers are tried in a fixed priority and the first that succeeds
\* answers: the recommendation kind first; then the labels, whenever labels
\* are given (the text is then never consulted); the keyword rules on the
\* text only without labels, where the first rule in the listed order that
\* matches decides the family; and the agreement default when that family
\* cannot serve the size or no rule matches.
C3_TierPriority ==
    Resolved =>
        IF question.type = "nps" THEN R.semantic = "nps"
        ELSE IF HasLabels THEN
            \/ R.semantic = "custom"
            \/ \E i \in EntriesNamed : R.semantic = LABEL_TO_SEMANTIC[i].semantic
        ELSE IF RulesMatching = {} THEN R.semantic = "agreement"
        ELSE LET first == KeywordRules[Least(RulesMatching)].family
             IN  IF Serves(first, R.scaleMax - R.scaleMin + 1)
                 THEN R.semantic = first
                 ELSE R.semantic = "agreement"

\* labels that name no family on a question whose text names one: the
\* labels decide (custom), the text is not consulted
C3_Witness ==
    /\ Resolved
    /\ question.type = "likert"
    /\ HasLabels
    /\ EntriesNamed = {}
    /\ Cardinality(RulesMatching) >= 2
    /\ R.semantic = "custom"

\* C4: for the recommendation kind the result is the dedicated 11-point
\* template with bounds 0..10, whatever scaleMin, scaleMax, labels or text
\* the question carries.
C4_NpsFixed ==
    (Resolved /\ question.type = "nps") =>
        /\ R.semantic = "nps"
        /\ R.anchors = TEMPLATES.nps.anchors11
        /\ Len(R.anchors) = 11
        /\ R.scaleMin = 0
        /\ R.scaleMax = 10

\* a recommendation question with bounds 1..5, labels of the satisfaction
\* family and a text of the trust family
C4_Witness ==
    /\ Resolved
    /\ question.type = "nps"
    /\ question.scaleMin = Some(1) /\ question.scaleMax = Some(5)
    /\ HasLabels /\ LowNorm = "very dissatisfied"
    /\ includes(question.text, "trust")
    /\ R.scaleMax = 10

\* C5 as stated: labels of which neither, lowercased and trimmed, is found
\* in the table give the custom family; a template family is returned only
\* when a label is found in the table.
C5_CustomUnlessInTable ==
    (Resolved /\ question.type # "nps" /\ HasLabels
        /\ LowNorm \notin TableKeys /\ HighNorm \notin TableKeys) =>
            R.semantic = "custom"

\* C5, amended: when labels are given and neither, lowercased and trimmed,
\* equals or contains a key of the table, the result is the custom family
\* with N anchors (one anchor when N < 1), each built from the text of the
\* two labels; a template family is returned only when a label equals or
\* contains a key of the table, and it is the family of such a key.
C5_CustomUnlessNamed ==
    (Resolved /\ question.type # "nps" /\ HasLabels) =>
        /\ EntriesNamed = {} =>
              /\ R.semantic = "custom"
              /\ Len(R.anchors) = IF OwnSize < 1 THEN 1 ELSE OwnSize
        /\ R.semantic = "custom" =>
              \A i \in 1..Len(R.anchors) :
                  \/ includes(toLowerCase(R.anchors[i]),
                              toLowerCase(Val(question.scaleAnchors).low))
                  \/ includes(toLowerCase(R.anchors[i]),
                              toLowerCase(Val(question.scaleAnchors).high))
        /\ R.semantic # "custom" =>
              \E i \in EntriesNamed : R.semantic = LABEL_TO_SEMANTIC[i].semantic

\* seven anchors synthesized from the labels Cold / Hot
C5_Witness ==
    /\ Resolved
    /\ question.type = "likert"
    /\ HasLabels
    /\ Val(question.scaleAnchors).low = "Cold"
    /\ EntriesNamed = {}
    /\ R.semantic = "custom"
    /\ Len(R.anchors) = 7
    /\ R.anchors[4] = "Neither cold nor hot. I feel neutral."

\* the families that hold a 5-point list and no other
FivePointOnly ==
    { f \in DOMAIN TEMPLATES :
        DOMAIN TEMPLATES[f] = { "anchors5" } /\ Len(TEMPLATES[f].anchors5) = 5 }

\* k = round(i / (n - 1) * 4), the integer with k <= 4i/(n-1) + 1/2 < k + 1
IsNearestIndex(k, i, n) ==
    /\ 2 * k * (n - 1) <= 8 * i + (n - 1)
    /\ 8 * i + (n - 1) < 2 * (k + 1) * (n - 1)

\* C6: for a family with only a 5-point list and a requested size N >= 2,
\* N # 5, the anchor at point i (0 <= i < N) is the canonical anchor at
\* index round(i / (N - 1) * 4), for every i and N.
C6_NearestIndex ==
    (Resolved /\ R.semantic \in FivePointOnly) =>
        LET n == R.scaleMax - R.scaleMin + 1
        IN  (n >= 2 /\ n # 5) =>
                /\ Len(R.anchors) = n
                /\ \A i \in 0..(n - 1) :
                       \E k \in 0..4 :
                           /\ IsNearestIndex(k, i, n)
                           /\ R.anchors[i + 1] = TEMPLATES[R.semantic].anchors5[k + 1]

\* nine points from the satisfaction list: point 1 sits at 0.5 and takes
\* canonical index 1, point 3 at 1.5 takes index 2
C6_Witness ==
    /\ Resolved
    /\ R.semantic = "satisfaction"
    /\ Len(R.anchors) = 9
    /\ R.anchors[2] = TEMPLATES.satisfaction.anchors5[2]
    /\ R.anchors[4] = TEMPLATES.satisfaction.anchors5[3]

\* C7: in every resolved anchor set of N >= 2 anchors, index 0 carries the
\* low pole and index N-1 the high pole: a template family gives the first
\* and the last anchor of one of its canonical lists, the custom family
\* starts index 0 with the low label and index N-1 with the high label.
C7_Poles ==
    (Resolved /\ Len(R.anchors) >= 2) =>
        LET n == Len(R.anchors)
        IN  IF R.semantic = "custom"
            THEN /\ startsWith(R.anchors[1], Val(question.scaleAnchors).low)
                 /\ startsWith(R.anchors[n], Val(question.scaleAnchors).high)
            ELSE \E f \in DOMAIN TEMPLATES[R.semantic] :
                    LET canon == TEMPLATES[R.semantic][f]
                    IN  /\ Len(canon) > 0
                        /\ R.anchors[1] = canon[1]
                        /\ R.anchors[n] = canon[Len(canon)]

\* a 3-point trust scale, resampled from the 5-point list
C7_Witness ==
    /\ Resolved
    /\ R.semantic = "trust"
    /\ Len(R.anchors) = 3
    /\ R.anchors[3] = TEMPLATES.trust.anchors5[5]

(***************************************************************************)
(* Properties of the scorer (under SpecScore).                             *)
(***************************************************************************)
Scored == scoreOut # None

In == Val(scoreIn)

Out == Val(scoreOut)

EmptyAnchors(in) == Len(in.anchorVecs) = 0

DimensionMismatch(in) ==
    \E i \in 1..Len(in.anchorVecs) :
        Len(in.anchorVecs[i]) # Len(in.responseVec)

InvalidInput(in) ==
    \/ EmptyAnchors(in)
    \/ DimensionMismatch(in)
    \/ in.temperature <= 0

\* C8: a scoring call ends with an InvalidInput error, and returns no
\* result, exactly when the anchor vector list is empty, or the response
\* vector and some anchor vector differ in dimension, or the temperature is
\* not greater than 0; every other call returns a result.
C8_InvalidInputRejected ==
    Scored =>
        IF InvalidInput(In)
        THEN /\ Out.status = "rejected"
             /\ Out.value = "InvalidInput"
        ELSE Out.status = "fulfilled"

\* the calls the code answers although the claim wants them refused: a
\* result with an empty distribution, and results whose every number is NaN
C8_EmptyAnchorsAnswered ==
    /\ Scored
    /\ EmptyAnchors(In)
    /\ Out.status = "fulfilled"
    /\ Out.value.distribution = << >>

C8_MismatchAnswered ==
    /\ Scored
    /\ DimensionMismatch(In)
    /\ In.temperature > 0
    /\ Out.status = "fulfilled"
    /\ Out.value.rating = NaN

C8_ZeroTemperatureAnswered ==
    /\ Scored
    /\ ~EmptyAnchors(In)
    /\ ~DimensionMismatch(In)
    /\ In.temperature = 0
    /\ Out.status = "fulfilled"
    /\ Out.value.rating = NaN

C8_NegativeTemperatureAnswered ==
    /\ Scored
    /\ ~EmptyAnchors(In)
    /\ ~DimensionMismatch(In)
    /\ In.temperature < 0
    /\ Out.status = "fulfilled"
    /\ IsFinite(Out.value.rating)

RECURSIVE ExpectedValue(_, _, _)
\* sum over the indices i >= k of distribution[i] * (min + i), as a
\* fixed-point value (indices counted from 0)
ExpectedValue(distribution, min, k) ==
    IF k >= Len(distribution) THEN 0
    ELSE distribution[k + 1] * (min + k) + ExpectedValue(distribution, min, k + 1)

\* the integer nearest to a fixed-point value, halves upwards
NearestInteger(x) == (2 * x + SCALE) \div (2 * SCALE)

Clamp(x, min, max) == IF x < min THEN min ELSE IF x > max THEN max ELSE x

\* C10: the rating a scoring call returns is an integer with
\* min <= rating <= max, and it is the expected value of the returned
\* distribution, sum of distribution[i] * (min + i), rounded to the nearest
\* integer and clamped to [min, max].
C10_RatingIsClampedExpectedValue ==
    (Scored /\ Out.status = "fulfilled") =>
        LET rating == Out.value.rating
        IN  /\ IsFinite(rating)
            /\ In.scaleMin <= rating
            /\ rating <= In.scaleMax
            /\ rating = Clamp(NearestInteger(
                                  ExpectedValue(Out.value.distribution,
                                                In.scaleMin, 0)),
                              In.scaleMin, In.scaleMax)

\* on the calls C8 wants refused the rating is no integer of the scale ...
C10_RatingOffScale ==
    /\ Scored
    /\ InvalidInput(In)
    /\ ~EmptyAnchors(In)
    /\ Out.value.rating = NaN

\* ... and on every other call it is the clamped, rounded expected value
C10_HoldsOnValidInput ==
    (Scored /\ ~InvalidInput(In)) => C10_RatingIsClampedExpectedValue

\* a valid call whose rating is the middle point although the middle entry
\* of the distribution is the smallest
C10_ValidInputScored ==
    /\ Scored
    /\ ~InvalidInput(In)
    /\ Len(In.anchorVecs) = 3
    /\ Out.value.rating = In.scaleMin + 1
    /\ Out.value.distribution[2] < Out.value.distribution[1]
    /\ Out.value.distribution[2] < Out.value.distribution[3]

(***************************************************************************)
(* Properties of mapToLikert (under SpecMap).                              *)
(***************************************************************************)
Mapped == mapOut # None

M == Val(mapOut)

\* C9: after every embedding-based mapping of a Likert or recommendation
\* question, the distribution has as many entries as the question has
\* resolved anchors, and that number is max - min + 1 for the bounds
\* [min, max] mapToLikert computes and clamps the rating with; also when the
\* question's minimum is 0.
C9_DistributionMatchesScale ==
    Mapped =>
        LET distribution == M.outcome.value.distribution
            min          == mapToLikertScaleMin(M.question)
            max          == mapToLikertScaleMax(M.question)
        IN  /\ Len(distribution) = Len(resolveAnchors(M.question).anchors)
            /\ Len(distribution) = max - min + 1

\* a Likert question on the scale 0..4: five anchors, five distribution
\* entries, and the rating computed on [1, 4]
C9_ZeroMinimumMapped ==
    /\ Mapped
    /\ M.question.type = "likert"
    /\ M.question.scaleMin = Some(0)
    /\ M.question.scaleMax = Some(4)
    /\ Len(M.outcome.value.distribution) = 5
    /\ mapToLikertScaleMin(M.question) = 1
    /\ mapToLikertScaleMax(M.question) = 4

\* the entries match the anchors in every mapping
C9_EntriesMatchAnchors ==
    Mapped =>
        Len(M.outcome.value.distribution)
            = Len(resolveAnchors(M.question).anchors)

(***************************************************************************)
(* Properties of the distribution (under SpecSim).                         *)
(***************************************************************************)
SimScored == simOut # None

SIn == Val(simIn)

SOut == Val(simOut)

RECURSIVE SumOf(_)
SumOf(xs) == IF Len(xs) = 0 THEN 0 ELSE Head(xs) + SumOf(Tail(xs))

Abs(x) == IF x < 0 THEN 0 - x ELSE x

AllEqual(xs) == \A i, j \in 1..Len(xs) : xs[i] = xs[j]

\* C12: when all N >= 1 similarities are equal, every normalization mode
\* and every temperature > 0 give the uniform distribution, every entry
\* 1/N; on the scale 1..5 the rating is then 3 and the confidence 0.
C12_EqualGivesUniform ==
    (/\ SimScored
     /\ Len(SIn.similarities) >= 1
     /\ AllEqual(SIn.similarities)
     /\ SIn.temperature > 0) =>
        LET N == Len(SIn.similarities)
        IN  /\ Len(SOut.distribution) = N
            /\ \A i \in 1..N : SOut.distribution[i] = DivRound(SCALE, N)
            /\ (SIn.scaleMin = 1 /\ SIn.scaleMax = 5) =>
                  (SOut.rating = 3 /\ SOut.confidence = 0)

\* five similarities of 0.7 under z-score normalization
C12_Witness ==
    /\ SimScored
    /\ SIn.similarities = << 700, 700, 700, 700, 700 >>
    /\ SIn.normalization = "zscore"
    /\ SIn.temperature = SCALE \div 5
    /\ SIn.scaleMin = 1
    /\ SOut.distribution = << 200, 200, 200, 200, 200 >>
    /\ SOut.rating = 3
    /\ SOut.confidence = 0

(***************************************************************************)
(* Calibration claims.  LODO is what runLODO returned, Runs the bootstrap  *)
(* runs made; CasesOutside and CasesInside select cases by domain.         *)
(***************************************************************************)
LODO == lodoOut[1].value

CasesOutside(domain) ==
    SelectSeq(embeddedCases, LAMBDA tc : tc.domain # domain)

CasesInside(domain) ==
    SelectSeq(embeddedCases, LAMBDA tc : tc.domain = domain)

\* the position of temp in the candidate list
CandidateIndex(temp) ==
    CHOOSE b \in 1..Len(CANDIDATE_TEMPS) : CANDIDATE_TEMPS[b] = temp

\* candidate b is the best one for the training cases: none has more exact
\* hits, none with as many has a lower MAE, none before it is as good
IsBestCandidate(train, b) ==
    \A best \in { evaluate(train, CANDIDATE_TEMPS[b]) } :
       \A k \in 1..Len(CANDIDATE_TEMPS) :
          \A other \in { evaluate(train, CANDIDATE_TEMPS[k]) } :
             /\ other.exact <= best.exact
             /\ other.exact = best.exact => ~Less(other.mae, best.mae)
             /\ (other.exact = best.exact /\ other.mae = best.mae) => b <= k

\* C13: the temperature findBestTemp returns for a training set is the
\* candidate with the most exact hits on it; among those with as many, the
\* one with the lowest MAE; among those equal in both, the first in the
\* candidate list.  Checked on every training set runLODO calibrates on.
C13_BestCandidateChosen ==
    lodoOut # None =>
       \A f \in 1..Len(LODO.results) :
          LET fold  == LODO.results[f]
              train == CasesOutside(fold.heldOutDomain)
          IN  /\ \E b \in 1..Len(CANDIDATE_TEMPS) :
                    CANDIDATE_TEMPS[b] = fold.calibratedTemp
              /\ fold.trainResult = evaluate(train, fold.calibratedTemp)
              /\ IsBestCandidate(train, CandidateIndex(fold.calibratedTemp))

\* a fold whose temperature is not the first candidate, where an earlier
\* candidate has as many exact hits and a higher MAE and a later one is
\* equal in both
C13_TiesBroken ==
    /\ lodoOut # None
    /\ \E f \in 1..Len(LODO.results) :
          LET fold   == LODO.results[f]
              train  == CasesOutside(fold.heldOutDomain)
              b      == CandidateIndex(fold.calibratedTemp)
              scores == [ k \in 1..Len(CANDIDATE_TEMPS) |->
                            evaluate(train, CANDIDATE_TEMPS[k]) ]
          IN  /\ Len(train) > 0
              /\ b > 1
              /\ \E k \in 1..(b - 1) :
                    /\ scores[k].exact = scores[b].exact
                    /\ Less(scores[b].mae, scores[k].mae)
              /\ \E k \in (b + 1)..Len(CANDIDATE_TEMPS) :
                    /\ scores[k].exact = scores[b].exact
                    /\ scores[k].mae = scores[b].mae

\* the fold of runLODO's result that holds domain out
FoldOf(domain) ==
    LODO.results[CHOOSE f \in 1..Len(LODO.results) :
                    LODO.results[f].heldOutDomain = domain]

\* the number of cases that hit counts under the temperature of their own
\* fold
PooledCount(hit(_)) ==
    Cardinality({ k \in 1..Len(embeddedCases) :
        hit(evaluate(<< embeddedCases[k] >>,
                     FoldOf(embeddedCases[k].domain).calibratedTemp)) = 1 })

\* C14: in leave-one-domain-out validation every domain of the data is held
\* out exactly once; the temperature of a fold is the best candidate on the
\* cases of the other domains alone; the fold's test result is the
\* evaluation of the held-out domain's cases alone at that temperature; the
\* pooled totals count every case exactly once.
C14_LeaveOneDomainOut ==
    lodoOut # None =>
       LET domains == { embeddedCases[k].domain : k \in 1..Len(embeddedCases) }
           folds   == 1..Len(LODO.results)
       IN  /\ \A f \in folds : LODO.results[f].heldOutDomain \in domains
           /\ \A d \in domains :
                 Cardinality({ f \in folds : LODO.results[f].heldOutDomain = d }) = 1
           /\ \A f \in folds :
                 LET fold == LODO.results[f]
                 IN  /\ fold.trainResult.total
                           = Len(CasesOutside(fold.heldOutDomain))
                     /\ IsBestCandidate(CasesOutside(fold.heldOutDomain),
                                        CandidateIndex(fold.calibratedTemp))
                     /\ fold.testResult
                           = evaluate(CasesInside(fold.heldOutDomain),
                                      fold.calibratedTemp)
           /\ LODO.totalTestCases = Len(embeddedCases)
           /\ LODO.totalTestExact = PooledCount(LAMBDA r : r.exact)
           /\ LODO.totalTestWithinOne = PooledCount(LAMBDA r : r.withinOne)

\* validation over at least three cases in several domains where two folds
\* calibrate different temperatures
C14_FoldsDiffer ==
    /\ lodoOut # None
    /\ Len(embeddedCases) >= 3
    /\ \E f, g \in 1..Len(LODO.results) :
          /\ LODO.results[f].calibratedTemp # LODO.results[g].calibratedTemp
          /\ LODO.results[f].testResult.total > 0
          /\ LODO.results[g].trainResult.total > 0

\* a call that failed with an InsufficientData error
InsufficientData == [ status |-> "thrown", error |-> "InsufficientData" ]

\* the number of cases runBootstrap calibrates on in each repeat
TrainSize == (7 * Len(embeddedCases)) \div 10

\* C15: calibration fails with an InsufficientData error, and returns no
\* estimate, when the data has fewer than two domains (runLODO) or when the
\* training split is empty (runLODO with one domain held out of one,
\* runBootstrap with a training split of no case).
C15_InsufficientDataRejected ==
    /\ ( /\ lodoOut # None
         /\ Cardinality({ embeddedCases[k].domain :
                            k \in 1..Len(embeddedCases) }) < 2 )
          => lodoOut[1] = InsufficientData
    /\ \A r \in 1..Len(bootRuns) :
          TrainSize = 0 => bootRuns[r].outcome = InsufficientData

\* the value runBootstrap returned in run r
Run(r) == bootRuns[r].outcome.value

Range(seq) == { seq[k] : k \in 1..Len(seq) }

\* C17: in every bootstrap repeat the shuffled order is a permutation of all
\* cases, the training set is its first floor(0.7 * n) elements and the test
\* set the remainder; the two are disjoint and together are all cases.
C17_SplitIsPartition ==
    \A r \in 1..Len(bootRuns) :
       /\ Len(Run(r).splits) = BOOTSTRAP_REPEATS
       /\ \A i \in 1..Len(Run(r).splits) :
             LET split == Run(r).splits[i]
                 n     == Len(embeddedCases)
                 all   == { embeddedCases[k].label : k \in 1..n }
             IN  /\ Len(split.shuffled) = n
                 /\ Range(split.shuffled) = all
                 /\ split.train = SubSeq(split.shuffled, 1, TrainSize)
                 /\ split.test = SubSeq(split.shuffled, TrainSize + 1, n)
                 /\ Range(split.train) \cap Range(split.test) = { }
                 /\ Range(split.train) \cup Range(split.test) = all
                 /\ Len(split.train) + Len(split.test) = n

\* a repeat over at least three cases whose shuffle moved a case and whose
\* training and test sets are both non-empty
C17_ShuffledSplit ==
    \E r \in 1..Len(bootRuns) :
       \E i \in 1..Len(Run(r).splits) :
          /\ Len(embeddedCases) >= 3
          /\ Run(r).splits[i].shuffled # Labels(embeddedCases)
          /\ Len(Run(r).splits[i].train) >= 2
          /\ Len(Run(r).splits[i].test) >= 1

\* what the script's own loops, run in order, produce for the cases
InOrderPasses == bootstrapLoop(embeddedCases, mulberry32(SEED), 0, << >>)

InOrderFolds == runLODO(embeddedCases).results

\* C18: bootstrap repeats and folds have no ordering dependency: whatever
\* order they are run in, each finished repeat has the shuffled order, the
\* assignment, the temperature and the scores it has when the repeats run
\* in order, and each finished fold has the result it has in order.
C18_NoOrderingDependency ==
    /\ \A inOrder \in { InOrderPasses } :
          \A i \in DOMAIN repeatOut :
             repeatOut[i] # None =>
                /\ repeatOut[i][1].shuffled = inOrder[i + 1].shuffled
                /\ repeatOut[i][1].train = inOrder[i + 1].train
                /\ repeatOut[i][1].test = inOrder[i + 1].test
                /\ repeatOut[i][1].temp = inOrder[i + 1].temp
                /\ repeatOut[i][1].exactPct = inOrder[i + 1].exactPct
                /\ repeatOut[i][1].mae = inOrder[i + 1].mae
    /\ \A inOrder \in { InOrderFolds } :
          \A d \in DOMAIN foldOut :
             foldOut[d] # None => foldOut[d][1] = inOrder[d]

(***************************************************************************)
(* Properties of the anchor cache, checked under SpecCache.                *)
(***************************************************************************)
Started(c) == mappings[c].pc # "idle"

\* C19: any two resolved anchor sets that share the cache key (semantic
\* family and anchor count) have identical anchor statements, so that every
\* writer of the cache computes the same value for the same key and a
\* mapping is never served the vectors of other anchor statements than its
\* own.
C19_SameKeySameAnchors ==
    \A c, d \in DOMAIN mappings :
       ( /\ Started(c)
         /\ Started(d)
         /\ mappings[c].cacheKey = mappings[d].cacheKey )
          => /\ mappings[c].anchorTexts = mappings[d].anchorTexts
             /\ mappings[c].anchorVecs # None
                   => mappings[c].anchorVecs[1] = embed(mappings[c].anchorTexts[1])

C21_AtMostLimitPerMinute ==
    Len(recentPasses) > MAX_REQUESTS_PER_MINUTE
       => recentPasses[Len(recentPasses)] - recentPasses[1] >= MINUTE

(***************************************************************************)
(* Properties of fetchWithRetry, checked under SpecFetchFair.              *)
(***************************************************************************)
\* the requests sent for the current batch
Requests == SelectSeq(fetchLog, LAMBDA e : e.kind = "request")

\* at most four requests per batch, numbered from attempt 0; a request
\* other than the first follows a wait, a wait follows a 429 to an attempt
\* before the last and lasts 22 s * 2^attempt, and every other response ends
\* the call: a 200 with the batch's result or a parse error, any other
\* status and the 429 to the last attempt with an error
C22_RetryDiscipline ==
    /\ Len(Requests) <= 3 + 1
    /\ \A k \in 1..Len(Requests) : Requests[k].value = k - 1
    /\ \A k \in 1..Len(fetchLog) :
          \E e \in { fetchLog[k] } :
             /\ e.kind = "request" /\ k > 1 => fetchLog[k - 1].kind = "wait"
             /\ e.kind = "wait" =>
                   /\ k >= 3
                   /\ fetchLog[k - 1] = Event("response", 429)
                   /\ fetchLog[k - 2].kind = "request"
                   /\ fetchLog[k - 2].value < 3
                   /\ e.value = 22 * 1000 * (2 ^ fetchLog[k - 2].value)
             /\ e.kind = "response" =>
                   /\ k >= 2
                   /\ fetchLog[k - 1].kind = "request"
                   /\ IF e.value = 429 /\ fetchLog[k - 1].value < 3
                      THEN /\ k < Len(fetchLog)
                           /\ fetchLog[k + 1].kind = "wait"
                      ELSE /\ k = Len(fetchLog)
                           /\ IsSome(embedOut)
                           /\ embedOut.status = "rejected"

\* C22: fetchWithRetry sends at most maxRetries + 1 = 4 requests per batch,
\* retries only after a 429 and after waiting 22 s * 2^attempt, raises an
\* error without a further request on any other non-OK status and on a 429
\* to the last attempt, and always ends: every embed call settles.
C22_FetchWithRetryTerminates ==
    /\ []C22_RetryDiscipline
    /\ IsSome(fetching) ~> embedOut # None

\* the second batch is refused four times: three waits, then the error
C22_LastAttemptRefused ==
    /\ IsSome(fetching)
    /\ Val(fetching).i > 0
    /\ Len(Requests) = 4
    /\ fetchLog[Len(fetchLog)] = Event("response", 429)
    /\ embedOut = Rejected("Voyage API error")

(***************************************************************************)
(* Properties of simulatePanel, checked under SpecPanel.                   *)
(***************************************************************************)
\* simulatePanel has returned, with cancelled as given
PanelReturned(cancelled) ==
    /\ panelOut # None
    /\ panelOut.status = "fulfilled"
    /\ panelOut.value.cancelled = cancelled

\* the personas whose promise is neither fulfilled nor rejected
InFlight ==
    { g \in DOMAIN personaRuns :
         personaRuns[g].pc \in { "simulating", "reporting", "reportingFallback" } }

\* the batch of persona g, counted from 0
BatchOf(g) == (g - 1) \div PARALLEL_PERSONAS

\* the number of batches started so far
BatchesStarted ==
    Cardinality({ BatchOf(g) : g \in { h \in DOMAIN personaRuns :
                                          personaRuns[h].pc # "pending" } })

\* C23: when simulatePanel returns without cancellation it returns one
\* result per persona, in persona order: the simulation result of a persona
\* whose simulation succeeded, an error-fallback result with every question
\* skipped for a persona whose simulation failed.
C23_OneResultPerPersona ==
    PanelReturned(FALSE) =>
       /\ Len(panelOut.value.results) = Val(panel).total
       /\ \A g \in 1..Len(panelOut.value.results) :
             \E r \in { panelOut.value.results[g] } :
                /\ r.personaId = g
                /\ personaRuns[g].simulated = Some("resolved")
                      => r = simulationResult(g)
                /\ personaRuns[g].simulated = Some("rejected")
                      => /\ r.mappingMethod = "error-fallback"
                         /\ \A k \in DOMAIN r.responses : r.responses[k].skipped

\* C24: at no time are more than PARALLEL_PERSONAS personas in flight, and
\* no persona of a later batch is started before every persona of every
\* earlier batch has finished.
C24_BatchesInSequence ==
    /\ Cardinality(InFlight) <= PARALLEL_PERSONAS
    /\ \A g, h \in DOMAIN personaRuns :
          BatchOf(g) < BatchOf(h) /\ personaRuns[h].pc # "pending"
             => personaRuns[g].pc = "done"

\* a full first batch is done and the second batch is in flight
C24_SecondBatchInFlight ==
    /\ Cardinality(InFlight) >= 2
    /\ \A h \in InFlight : BatchOf(h) = 1
    /\ \A g \in 1..PARALLEL_PERSONAS : personaRuns[g].pc = "done"

\* C25: shouldCancel is asked once before each batch; once it has answered
\* true simulatePanel returns cancelled = true with exactly the results of
\* the batches completed before, in persona order, and no persona of a
\* later batch is ever started; simulatePanel never returns in the middle
\* of a batch.
C25_CancelBetweenBatches ==
    IsSome(panel) =>
       \E p \in { Val(panel) } :
          /\ polls = IF p.hasCancel
                     THEN BatchesStarted
                             + (IF \/ p.pc = "polling"
                                   \/ PanelReturned(TRUE)
                                   \/ panelOut = Rejected("shouldCancel")
                                THEN 1 ELSE 0)
                     ELSE 0
          /\ ~p.hasCancel => ~PanelReturned(TRUE)
          /\ PanelReturned(TRUE) \/ PanelReturned(FALSE) => InFlight = { }
          /\ PanelReturned(TRUE) =>
                /\ \A g \in 1..p.total :
                      personaRuns[g].pc =
                         IF BatchOf(g) < p.batchIndex THEN "done" ELSE "pending"
                /\ panelOut.value.results =
                      [ g \in 1..batchStart(p.batchIndex) |-> Val(panelResults[g]) ]

\* shouldCancel answers true before the second batch: the results of the
\* first batch are returned
C25_CancelledAfterFirstBatch ==
    /\ PanelReturned(TRUE)
    /\ Val(panel).batchIndex = 1
    /\ polls = 2
    /\ Len(panelOut.value.results) = PARALLEL_PERSONAS
    /\ Val(panel).total > PARALLEL_PERSONAS

\* C26: each persona contributes exactly one increment of the completed
\* count, whether its simulation succeeds or throws and whether or not the
\* progress callback throws: the values of current passed to onProgress
\* are 1, 2, 3, ... and never exceed total, and the count is total when
\* simulatePanel returns without cancellation.
C26_OneIncrementPerPersona ==
    IsSome(panel) =>
       /\ completedCount =
             Cardinality({ g \in DOMAIN personaRuns :
                              personaRuns[g].simulated # None })
       /\ \A k \in 1..Len(progressLog) :
             /\ progressLog[k] = k
             /\ progressLog[k] <= Val(panel).total
       /\ PanelReturned(FALSE) =>
             /\ completedCount = Val(panel).total
             /\ Val(panel).hasProgress => Len(progressLog) = Val(panel).total

(***************************************************************************)
(* Properties of simulatePersona, checked under SpecPersona.               *)
(***************************************************************************)
\* the k-th question's condition is met by the responses rs: it has none,
\* or the question it refers to comes earlier, was answered and its answer
\* satisfies the condition
ConditionMet(questions, rs, k) ==
    \/ questions[k].showIf = None
    \/ \E j \in 1..(k - 1) :
          /\ questions[j].id = Val(questions[k].showIf).questionId
          /\ ~rs[j].skipped
          /\ evaluateCondition(rs[j], Val(questions[k].showIf))

\* C27: simulatePersona returns one response per question in question
\* order; a question is answered exactly if it has no condition or the
\* question referred to was answered earlier with an answer the condition
\* holds on, otherwise it is recorded as skipped without a generation
\* call; a question that depends on a skipped question is skipped.
C27_SkipsFollowConditions ==
    IsSome(simulation) =>
       \E sim \in { Val(simulation) } :
          /\ \E met \in { SelectSeq([ k \in 1..sim.k |-> k ],
                                     LAMBDA k : /\ k <= Len(sim.questions)
                                                /\ ConditionMet(sim.questions,
                                                                sim.responses, k)) } :
                generationCalls =
                   [ i \in 1..Len(met) |-> sim.questions[met[i]].id ]
          /\ \A k \in 1..Len(sim.responses) :
                /\ sim.responses[k].questionId = sim.questions[k].id
                /\ sim.responses[k].skipped
                      <=> ~ConditionMet(sim.questions, sim.responses, k)
                /\ \A j \in 1..(k - 1) :
                      /\ IsSome(sim.questions[k].showIf)
                      /\ Val(sim.questions[k].showIf).questionId = sim.questions[j].id
                      /\ sim.responses[j].skipped
                      => sim.responses[k].skipped
          /\ personaOut # None /\ personaOut.status = "fulfilled"
                => /\ personaOut.value.responses = sim.responses
                   /\ Len(sim.responses) = Len(sim.questions)

\* the first question is answered, the second is skipped on its answer and
\* the third, which depends on the second, is skipped with it
C27_SkippedChain ==
    /\ personaOut # None
    /\ personaOut.status = "fulfilled"
    /\ Len(personaOut.value.responses) = 3
    /\ generationCalls = << "q1" >>
    /\ Val(simulation).questions[2].showIf # None
    /\ Val(Val(simulation).questions[2].showIf).questionId = "q1"
    /\ Val(simulation).questions[3].showIf # None
    /\ Val(Val(simulation).questions[3].showIf).questionId = "q2"

(***************************************************************************)
(* Properties of mapToLikert with its fallbacks, checked under SpecLikert. *)
(***************************************************************************)
\* C28: mapToLikert always settles with a result, never with an error: the
\* embedding result when the embedding service is there and succeeds, a
\* result of the LLM mapping (mappingMethod "llm-fallback") when the
\* service is not there or the embedding path throws, and the middle rating
\* round((min + max) / 2) with confidence 0.5 when the LLM call throws or
\* its reply holds no JSON.
C28_AlwaysAResult ==
    likertOut # None =>
       \E call \in { Val(likertCall) } :
          /\ likertOut.status = "fulfilled"
          /\ call.embedding = "resolved"
                => likertOut.value.mappingMethod = "embedding-v1"
          /\ ~call.available \/ call.embedding = "rejected"
                => likertOut.value.mappingMethod = "llm-fallback"
          /\ \/ call.llm = "rejected"
             \/ call.llm = "resolved" /\ ~Val(call.reply).matches
             \/ call.llm = "resolved" /\ ~Val(call.reply).parses
                => /\ 2 * likertOut.value.rating \in
                         { call.scaleMin + call.scaleMax,
                           call.scaleMin + call.scaleMax + 1 }
                   /\ likertOut.value.confidence = SCALE \div 2

(***************************************************************************)
(* Properties of phase1Generate, checked under SpecGenerate.               *)
(***************************************************************************)
\* C29: phase1Generate returns exactly one entry per test case and persona,
\* in case-then-persona order: the generated text, or the placeholder
\* "[GENERATION FAILED]" when none of the MAX_RETRIES attempts gave a text,
\* whatever the mix of thrown errors and too-short texts.
C29_OneEntryPerPair ==
    generateOut # None =>
       \E entries \in { generateOut.value } :
          /\ Len(entries) = Len(ExperimentCases) * Len(ExperimentPersonas)
          /\ \A k \in 1..Len(entries) :
                /\ entries[k].testCaseLabel =
                      ExperimentCases[((k - 1) \div Len(ExperimentPersonas)) + 1]
                /\ entries[k].personaId =
                      ExperimentPersonas[((k - 1) % Len(ExperimentPersonas)) + 1]
                /\ Len(trim(entries[k].generatedText)) >= 10

====
